---- MODULE Spec2Model ----
(***************************************************************************)
(* A model of the zfs-api service's token store (redis_token_manager.py,   *)
(* async_redis_token_manager.py), its token-authenticated streaming socket *)
(* (zfs_token_socketserver.py), the token methods of the control API       *)
(* (zfs_api_server.py) and the background job manager                      *)
(* (async_background_task_manager.py, migrate_launcher.py).                *)
(*                                                                         *)
(* Every Redis command is one atomic step; a handler that issues several   *)
(* commands is a sequence of steps, one per command, because the socket    *)
(* server runs one thread per connection and the job manager suspends at   *)
(* every await.                                                            *)
(***************************************************************************)
EXTENDS Integers, Sequences, FiniteSets, TLC

\* ------------------------------------------------------------------ bounds
MaxTime == 3
MaxTtl == 2
MaxLines == 2
MaxFaults == 1

\* The send stream: chunks per stream, bytes per read (16 MB in the source),
\* characters of stderr.
MaxChunks == 2
CHUNK_SIZE == 2
MaxStderr == 1

\* The largest max_retries a reliable Redis client is configured with.
MaxRetries == 7

\* The number of clock readings that differ during one run of the launcher.
MaxClock == 1

\* ------------------------------------------------------- program constants
\* create_token: expire(user_tokens_key, ttl + 60)
OwnerGrace == 60

\* The configured maximum of concurrent tokens per owner of the specification
\* of issue; the code has no such setting.
MaxOwnerTokens == 1

\* Token ids in order of issue, and the concurrent socket connections.
Ids == {1, 2, 3}
FirstId == {1}
Conns == {"c1", "c2"}

\* authenticate_token: the longest token length it accepts, and the length
\* of the ids create_token hands out (str(uuid.uuid4())).
MaxTokenLength == 128
UuidLength == 36

\* len("ZFS send failed: ")
ErrorPrefixLen == 17
Users == {"u1"}
Ops == {"send", "receive"}

\* TokenManager.token_prefix and the literal key prefix of the async manager's
\* ZFS tokens; AsyncTokenManager.token_prefix is the prefix of its login tokens.
ZfsTokenPrefix == "zfs:token:"
AsyncTokenPrefix == "auth:token:"

\* Jobs in order of creation, the worker coroutines of the job manager and
\* the concurrent callers of cancel_task.
Jobs == {1, 2, 3}
FirstJob == {1}
Workers == {"w1", "w2"}
FirstWorker == {"w1"}
Callers == {"a1", "a2"}

\* Exit codes of the migration subprocess: by itself, and when launcher.cancel
\* signals its process group (SIGTERM, then SIGKILL after 5 seconds).
ExitCodes == {0, 1}
KillCodes == {-15, -9}

\* Python's None / a missing Redis key.
NoRec == [none |-> TRUE]

VARIABLES
    now,        \* wall clock, in seconds
    nextId,     \* number of token ids handed out so far (uuid4: never reused)
    zfsKey,     \* Redis keys zfs:token:<id>: [val, exp] or NoRec
    ownerIdx,   \* Redis sets zfs:user:tokens:<user>
    ownerExp,   \* expiry time of each owner set (0: no set)
    conn,       \* the socket handler thread of each connection
    rv,         \* a caller of TokenManager.revoke_token
    hist,       \* history of revocations, per token id
    redisUp,    \* whether the service's Redis clients reach the server
    faults,     \* number of Redis outages so far
    queue,      \* Redis list zfs_migration_queue
    task,       \* Redis hashes task:<id>: the persisted job records
    fresh,      \* whether the persisted completed_at is under 5 seconds old
    cr,         \* create_task's position, per job
    running_tasks,  \* keys of AsyncBackgroundTaskManager.running_tasks
    proc,       \* each job's launcher.process and its unread stderr lines
    wk,         \* the worker coroutines
    cn,         \* the callers of migration_cancel
    jh,         \* history of each job
    mg,         \* one run of standalone_migrate.py and the job that ran it
    bld,        \* the last call of ZFSCommands.send_snapshot
    pg,         \* one MigrateLauncher: its process group and its cancel call
    mgr,        \* AsyncBackgroundTaskManager.stop's position
    rcn,        \* one call of _reconnect of a reliable Redis client
    hd,         \* the holds on the source before and after one sync point
    ng,         \* the last call of zfs.engociate_inc_send
    ln          \* MigrateLauncher.run's stderr loop

tokVars == <<now, nextId, zfsKey, ownerIdx, ownerExp, conn, rv, hist>>

jobVars == <<redisUp, faults, queue, task, fresh, cr, running_tasks, proc,
             wk, cn, jh>>

\* The launcher on its own, the manager's shutdown, a reconnection.
extVars == <<pg, mgr, rcn, hd, ng, ln>>

\* What a step of one of these leaves alone.
exceptPg == <<mgr, rcn, hd, ng, ln>>
exceptMgr == <<pg, rcn, hd, ng, ln>>
exceptRcn == <<pg, mgr, hd, ng, ln>>
exceptHd == <<pg, mgr, rcn, ng, ln>>
exceptNg == <<pg, mgr, rcn, hd, ln>>
exceptLn == <<pg, mgr, rcn, hd, ng>>

migVars == <<mg, bld, extVars>>

vars == <<now, nextId, zfsKey, ownerIdx, ownerExp, conn, rv, hist,
          redisUp, faults, queue, task, fresh, cr, running_tasks, proc,
          wk, cn, jh, mg, bld, pg, mgr, rcn, hd, ng, ln>>

\* ------------------------------------------------------------ token store

\* hashlib.sha256(f"{token_id}:{operation}:{dataset}:{user_id}")[:16]; the
\* model keeps the hashed tuple itself (one dataset).
Checksum(id, operation, user) == <<id, operation, "pool/a", user>>

\* The token_data dictionary built by create_token (a send token always names
\* its snapshot, as token_create_send requires).
NewToken(id, operation, user, ttl) ==
    [ token_id   |-> id,
      operation  |-> operation,
      user_id    |-> user,
      expires_at |-> now + ttl,
      used       |-> FALSE,
      use_count  |-> 0,
      checksum   |-> Checksum(id, operation, user) ]

\* redis.get(f"{prefix}{id}"): only zfs:token: keys are ever written by the
\* service (its login tokens are JWTs, never stored under auth:token:).
\* A lookup that answers from a copy of the record when Redis cannot be
\* reached.
RedisGetStale(prefix, id) ==
    IF prefix = ZfsTokenPrefix /\ id \in Ids THEN zfsKey[id] ELSE NoRec

\* A command that fails (ReliableRedis.execute returns None) reads as a miss,
\* and so does a key that was never written, such as zfs:token: alone.
RedisGet(prefix, id) ==
    IF redisUp /\ prefix = ZfsTokenPrefix /\ id \in Ids
    THEN zfsKey[id] ELSE NoRec

\* redis.ttl(key): remaining seconds, -2 for a missing key; a failed command
\* returns None, which mark_token_used treats like a missing key.
RedisTtl(id) ==
    IF ~redisUp \/ zfsKey[id] = NoRec THEN -2 ELSE zfsKey[id].exp - now

\* An expiry test that lets a token live one second too long.
ExpiredLate(t, expires_at) == t > expires_at + 1

\* validate_token's expiry test: datetime.now() > expires_at.
Expired(t, expires_at) == t > expires_at

\* mark_token_used's update of the record it read.
MarkedUsed(data) ==
    [data EXCEPT !.used = TRUE, !.use_count = data.use_count + 1]

InitTokVars ==
    /\ now = 0
    /\ nextId = 0
    /\ zfsKey = [i \in Ids |-> NoRec]
    /\ ownerIdx = [u \in Users |-> {}]
    /\ ownerExp = [u \in Users |-> 0]
    /\ conn = [c \in Conns |->
                 [ pc |-> "idle", tok |-> 0, data |-> NoRec, late |-> FALSE,
                   m |-> NoRec, ttl |-> 0, marked |-> "none",
                   viol |-> FALSE, empty |-> FALSE, looked |-> FALSE,
                   out |-> << >>, rc |-> 0 ]]
    /\ rv = [pc |-> "idle", id |-> 0, user |-> ""]
    /\ hist = [i \in Ids |-> [stored |-> FALSE, removed |-> FALSE,
                             revokeReturned |-> FALSE]]

\* Time passes; Redis drops every key whose TTL has run out.
Tick ==
    /\ now < MaxTime
    /\ now' = now + 1
    /\ zfsKey' = [i \in Ids |->
                    IF zfsKey[i] # NoRec /\ zfsKey[i].exp <= now + 1
                    THEN NoRec ELSE zfsKey[i]]
    /\ ownerIdx' = [u \in Users |->
                      IF ownerExp[u] <= now + 1 THEN {} ELSE ownerIdx[u]]
    /\ ownerExp' = [u \in Users |->
                      IF ownerExp[u] <= now + 1 THEN 0 ELSE ownerExp[u]]
    /\ UNCHANGED <<nextId, conn, rv, hist>>
    /\ UNCHANGED jobVars
    /\ UNCHANGED migVars

\* TokenManager.create_token: the fresh id is returned only when the set of
\* the record succeeded; otherwise None is returned and nothing is stored.
CreateToken(id, user, operation, ttl) ==
    /\ id = nextId + 1
    /\ IF redisUp
       THEN /\ nextId' = id
            /\ zfsKey' = [zfsKey EXCEPT ![id] =
                            [ val |-> NewToken(id, operation, user, ttl),
                              exp |-> now + ttl ]]
            /\ ownerIdx' = [ownerIdx EXCEPT ![user] = @ \cup {id}]
            /\ ownerExp' = [ownerExp EXCEPT ![user] = now + ttl + OwnerGrace]
            /\ hist' = [hist EXCEPT ![id].stored = TRUE]
       ELSE UNCHANGED <<nextId, zfsKey, ownerIdx, ownerExp, hist>>
    /\ UNCHANGED <<now, conn, rv>>
    /\ UNCHANGED jobVars
    /\ UNCHANGED migVars

\* token_create_send / token_create_receive of the control API, through
\* AsyncTokenManager.create_token and _create_zfs_token.
\* The results of set, sadd and expire are not looked at: the token info is
\* returned to the caller whether or not the record was stored.
ApiTokenCreate(id, user, operation, ttl) ==
    /\ id = nextId + 1
    /\ nextId' = id
    /\ IF redisUp
       THEN /\ zfsKey' = [zfsKey EXCEPT ![id] =
                            [ val |-> NewToken(id, operation, user, ttl),
                              exp |-> now + ttl ]]
            /\ ownerIdx' = [ownerIdx EXCEPT ![user] = @ \cup {id}]
            /\ ownerExp' = [ownerExp EXCEPT ![user] = now + ttl]
            /\ hist' = [hist EXCEPT ![id].stored = TRUE]
       ELSE UNCHANGED <<zfsKey, ownerIdx, ownerExp, hist>>
    /\ UNCHANGED <<now, conn, rv>>
    /\ UNCHANGED jobVars
    /\ UNCHANGED migVars

\* No mark_token_used call on id is between its get and its set.
NoMarkInFlight(id) ==
    \A c \in Conns :
        conn[c].tok = id => conn[c].pc \notin {"mark_ttl", "mark_set"}

\* TokenManager.revoke_token, first command: get the record for its user_id.
RevokeGet(id) ==
    /\ rv.pc = "idle"
    /\ id <= nextId
    /\ LET k == RedisGet(ZfsTokenPrefix, id) IN
        rv' = IF k = NoRec
              THEN [pc |-> "delete", id |-> id, user |-> ""]
              ELSE [pc |-> "srem", id |-> id, user |-> k.val.user_id]
    /\ UNCHANGED <<now, nextId, zfsKey, ownerIdx, ownerExp, conn, hist>>
    /\ UNCHANGED jobVars
    /\ UNCHANGED migVars

\* TokenManager.revoke_token, second command: srem from the owner's set.
RevokeSrem ==
    /\ rv.pc = "srem"
    /\ ownerIdx' = IF redisUp
                    THEN [ownerIdx EXCEPT ![rv.user] = @ \ {rv.id}]
                    ELSE ownerIdx
    /\ rv' = [rv EXCEPT !.pc = "delete"]
    /\ UNCHANGED <<now, nextId, zfsKey, ownerExp, conn, hist>>
    /\ UNCHANGED jobVars
    /\ UNCHANGED migVars

\* A revoke that reports success whenever the delete command was executed.
RevokeAlwaysTrue == redisUp

\* What revoke_token returns: whether redis.delete deleted a key.
RevokeResult == redisUp /\ zfsKey[rv.id] # NoRec

\* TokenManager.revoke_token, last command: delete the key; the call returns
\* whether a key was deleted.
RevokeDelete ==
    /\ rv.pc = "delete"
    /\ zfsKey' = IF redisUp THEN [zfsKey EXCEPT ![rv.id] = NoRec] ELSE zfsKey
    /\ hist' = [hist EXCEPT ![rv.id] =
                  [ @ EXCEPT !.removed = @ \/ RevokeResult,
                             !.revokeReturned = @ \/ NoMarkInFlight(rv.id) ]]
    /\ rv' = [pc |-> "idle", id |-> 0, user |-> ""]
    /\ UNCHANGED <<now, nextId, ownerIdx, ownerExp, conn>>
    /\ UNCHANGED jobVars
    /\ UNCHANGED migVars

\* AsyncTokenManager.revoke_zfs_token, first command: get the record; a
\* miss returns False.
RevokeZfsGet(id) ==
    /\ rv.pc = "idle"
    /\ id <= nextId
    /\ LET k == RedisGet(ZfsTokenPrefix, id) IN
        rv' = IF k = NoRec
              THEN [pc |-> "zmiss", id |-> id, user |-> ""]
              ELSE [pc |-> "zdelete", id |-> id, user |-> k.val.user_id]
    /\ UNCHANGED <<now, nextId, zfsKey, ownerIdx, ownerExp, conn, hist>>
    /\ UNCHANGED jobVars
    /\ UNCHANGED migVars

\* AsyncTokenManager.revoke_zfs_token: "if not data: return False".
RevokeZfsMiss ==
    /\ rv.pc = "zmiss"
    /\ hist' = [hist EXCEPT ![rv.id].revokeReturned = TRUE]
    /\ rv' = [pc |-> "idle", id |-> 0, user |-> ""]
    /\ UNCHANGED <<now, nextId, zfsKey, ownerIdx, ownerExp, conn>>
    /\ UNCHANGED jobVars
    /\ UNCHANGED migVars

\* AsyncTokenManager.revoke_zfs_token, second command: delete the key.
RevokeZfsDelete ==
    /\ rv.pc = "zdelete"
    /\ zfsKey' = IF redisUp THEN [zfsKey EXCEPT ![rv.id] = NoRec] ELSE zfsKey
    /\ hist' = [hist EXCEPT ![rv.id].removed = @ \/ RevokeResult]
    /\ rv' = [rv EXCEPT !.pc = "zsrem"]
    /\ UNCHANGED <<now, nextId, ownerIdx, ownerExp, conn>>
    /\ UNCHANGED jobVars
    /\ UNCHANGED migVars

\* AsyncTokenManager.revoke_zfs_token, third command: srem from the owner's
\* set; the call returns True.
RevokeZfsSrem ==
    /\ rv.pc = "zsrem"
    /\ ownerIdx' = IF redisUp
                    THEN [ownerIdx EXCEPT ![rv.user] = @ \ {rv.id}]
                    ELSE ownerIdx
    /\ hist' = [hist EXCEPT ![rv.id].revokeReturned = TRUE]
    /\ rv' = [pc |-> "idle", id |-> 0, user |-> ""]
    /\ UNCHANGED <<now, nextId, zfsKey, ownerExp, conn>>
    /\ UNCHANGED jobVars
    /\ UNCHANGED migVars

\* The boolean a revoke call returns in its last step.
RevokeReturns ==
    IF rv.pc = "delete" THEN RevokeResult ELSE rv.pc = "zsrem"

\* token_revoke of the control API: AsyncTokenManager.revoke_token, which
\* looks the id up under AsyncTokenManager.token_prefix.
ApiTokenRevoke(id) ==
    /\ id <= nextId
    /\ LET data == RedisGet(AsyncTokenPrefix, id) IN
        IF data = NoRec
        THEN \* return False
             /\ hist' = [hist EXCEPT ![id].revokeReturned =
                                        @ \/ NoMarkInFlight(id)]
             /\ UNCHANGED <<zfsKey, ownerIdx>>
        ELSE \* delete the key, srem it from the user's set, return True
             /\ zfsKey' = [zfsKey EXCEPT ![id] = NoRec]
             /\ ownerIdx' = [ownerIdx EXCEPT ![data.val.user_id] = @ \ {id}]
             /\ hist' = [hist EXCEPT ![id].revokeReturned =
                                        @ \/ NoMarkInFlight(id),
                                     ![id].removed = TRUE]
    /\ UNCHANGED <<now, nextId, ownerExp, conn, rv>>
    /\ UNCHANGED jobVars
    /\ UNCHANGED migVars

\* ---------------------------------------------------------- socket server

\* authenticate_token: the length header and the token bytes arrive.
Connect(c, id) ==
    /\ conn[c].pc = "idle"
    /\ id <= nextId
    /\ conn' = [conn EXCEPT ![c].pc = "validate", ![c].tok = id]
    /\ UNCHANGED <<now, nextId, zfsKey, ownerIdx, ownerExp, rv, hist>>
    /\ UNCHANGED jobVars
    /\ UNCHANGED migVars

\* authenticate_token on a handshake that is not a complete issued token:
\* hdr bytes of the 4-byte length header arrive, the header declares a token
\* of declared bytes, and got of them arrive before the client stops
\* sending.  A short header, a declared length over 128 and a truncated
\* token are answered with send_error; a complete token of length 0 goes on
\* to validate_token as the empty string.
Handshake(c, hdr, declared, got) ==
    /\ conn[c].pc = "idle"
    /\ hdr < 4 \/ declared > MaxTokenLength \/ got < declared \/ declared = 0
    /\ conn' = [conn EXCEPT ![c] =
            IF hdr < 4 \/ declared > MaxTokenLength \/ got # declared
            THEN [@ EXCEPT !.pc = "rejected", !.viol = TRUE]
            ELSE [@ EXCEPT !.pc = "validate", !.tok = 0, !.empty = TRUE]]
    /\ UNCHANGED <<now, nextId, zfsKey, ownerIdx, ownerExp, rv, hist>>
    /\ UNCHANGED jobVars
    /\ UNCHANGED migVars

\* What the handler has written to the client: every rejection goes through
\* send_error, and handle_send / handle_receive write the started reply.
Wrote(c) ==
    IF conn[c].pc = "rejected" THEN <<"error">>
    ELSE IF conn[c].pc \in {"started", "stream", "wait", "done", "aborted"}
         THEN <<"started">>
         ELSE << >>

\* TokenManager.validate_token: get, then the checks on the record read.
ValidateToken(c) ==
    /\ conn[c].pc = "validate"
    /\ LET id == conn[c].tok
           k == RedisGet(ZfsTokenPrefix, id)
           me == [conn[c] EXCEPT !.looked = TRUE]
       IN conn' = [conn EXCEPT ![c] =
            IF k = NoRec
            THEN [me EXCEPT !.pc = "rejected"]
            ELSE IF Expired(now, k.val.expires_at)
            THEN [me EXCEPT !.pc = "vdelete"]
            ELSE IF k.val.checksum
                      # Checksum(id, k.val.operation, k.val.user_id)
            THEN [me EXCEPT !.pc = "rejected"]
            ELSE [me EXCEPT !.pc = "mark_get", !.data = k.val,
                            !.late = (now > k.val.expires_at)]]
    /\ UNCHANGED <<now, nextId, zfsKey, ownerIdx, ownerExp, rv, hist>>
    /\ UNCHANGED jobVars
    /\ UNCHANGED migVars

\* validate_token on an expired record: redis.delete(token_key), return None.
ValidateDelete(c) ==
    /\ conn[c].pc = "vdelete"
    /\ zfsKey' = IF redisUp
                  THEN [zfsKey EXCEPT ![conn[c].tok] = NoRec] ELSE zfsKey
    /\ conn' = [conn EXCEPT ![c].pc = "rejected"]
    /\ UNCHANGED <<now, nextId, ownerIdx, ownerExp, rv, hist>>
    /\ UNCHANGED jobVars
    /\ UNCHANGED migVars

\* TokenManager.mark_token_used, first command: get.
MarkGet(c) ==
    /\ conn[c].pc = "mark_get"
    /\ LET k == RedisGet(ZfsTokenPrefix, conn[c].tok) IN
        conn' = [conn EXCEPT ![c] =
            IF k = NoRec
            THEN [@ EXCEPT !.pc = "reply", !.marked = "false"]
            ELSE [@ EXCEPT !.pc = "mark_ttl", !.m = MarkedUsed(k.val)]]
    /\ UNCHANGED <<now, nextId, zfsKey, ownerIdx, ownerExp, rv, hist>>
    /\ UNCHANGED jobVars
    /\ UNCHANGED migVars

\* TokenManager.mark_token_used, second command: ttl.
MarkTtl(c) ==
    /\ conn[c].pc = "mark_ttl"
    /\ LET ttl == RedisTtl(conn[c].tok) IN
        conn' = [conn EXCEPT ![c] =
            IF ttl > 0
            THEN [@ EXCEPT !.pc = "mark_set", !.ttl = ttl]
            ELSE [@ EXCEPT !.pc = "reply", !.marked = "false"]]
    /\ UNCHANGED <<now, nextId, zfsKey, ownerIdx, ownerExp, rv, hist>>
    /\ UNCHANGED jobVars
    /\ UNCHANGED migVars

\* TokenManager.mark_token_used, third command: set(key, data, ex=ttl).
MarkSet(c) ==
    /\ conn[c].pc = "mark_set"
    /\ zfsKey' = IF redisUp
                  THEN [zfsKey EXCEPT ![conn[c].tok] =
                          [val |-> conn[c].m, exp |-> now + conn[c].ttl]]
                  ELSE zfsKey
    /\ conn' = [conn EXCEPT ![c].pc = "reply",
                            ![c].marked = IF redisUp THEN "true" ELSE "false"]
    /\ UNCHANGED <<now, nextId, ownerIdx, ownerExp, rv, hist>>
    /\ UNCHANGED jobVars
    /\ UNCHANGED migVars

\* authenticate_token returns token_data whatever mark_token_used returned;
\* handle routes on the operation, and handle_send / handle_receive reply
\* {"status": "started"}.
Reply(c) ==
    /\ conn[c].pc = "reply"
    /\ conn' = [conn EXCEPT ![c] =
            IF conn[c].data.operation \in {"send", "receive"}
            THEN [@ EXCEPT !.pc = "started", !.m = NoRec, !.ttl = 0]
            ELSE [@ EXCEPT !.pc = "rejected", !.m = NoRec, !.ttl = 0]]
    /\ UNCHANGED <<now, nextId, zfsKey, ownerIdx, ownerExp, rv, hist>>
    /\ UNCHANGED jobVars
    /\ UNCHANGED migVars

\* ------------------------------------------------------------ handle_send

\* A frame on the wire: the 8-byte length header's value and the number of
\* bytes written after it.
Frame(len, bytes) == [len |-> len, bytes |-> bytes]

\* The characters of the pipeline's decoded stderr: one ASCII character and
\* one that takes two bytes in UTF-8.
Chars == {"a", "U+00E9"}

Utf8Width(ch) == IF ch = "a" THEN 1 ELSE 2

\* len(s.encode('utf-8'))
RECURSIVE Utf8Len(_)
Utf8Len(s) == IF s = << >> THEN 0 ELSE Utf8Width(Head(s)) + Utf8Len(Tail(s))

Stderrs == UNION {[1 .. n -> Chars] : n \in 0 .. MaxStderr}

\* error_msg = f"ZFS send failed: {stderr}": its length in characters, and
\* the length of error_msg.encode('utf-8').
ErrorMsgChars(stderr) == ErrorPrefixLen + Len(stderr)
ErrorMsgBytes(stderr) == ErrorPrefixLen + Utf8Len(stderr)

\* subprocess.Popen(cmd, stdout=PIPE, stderr=PIPE) after the started reply.
SendPopen(c) ==
    /\ conn[c].pc = "started"
    /\ conn[c].data.operation = "send"
    /\ conn' = [conn EXCEPT ![c].pc = "stream"]
    /\ UNCHANGED <<now, nextId, zfsKey, ownerIdx, ownerExp, rv, hist>>
    /\ UNCHANGED jobVars
    /\ UNCHANGED migVars

\* proc.stdout.read(CHUNK_SIZE) returned n > 0 bytes: the length header and
\* the chunk are written.
SendChunk(c, n) ==
    /\ conn[c].pc = "stream"
    /\ n \in 1 .. CHUNK_SIZE
    /\ Len(conn[c].out) < MaxChunks
    /\ conn' = [conn EXCEPT ![c].out = Append(@, Frame(n, n))]
    /\ UNCHANGED <<now, nextId, zfsKey, ownerIdx, ownerExp, rv, hist>>
    /\ UNCHANGED jobVars
    /\ UNCHANGED migVars

\* The read returned b"": the loop ends and the end marker is written.
SendEof(c) ==
    /\ conn[c].pc = "stream"
    /\ conn' = [conn EXCEPT ![c].pc = "wait",
                            ![c].out = Append(@, Frame(0, 0))]
    /\ UNCHANGED <<now, nextId, zfsKey, ownerIdx, ownerExp, rv, hist>>
    /\ UNCHANGED jobVars
    /\ UNCHANGED migVars

\* proc.wait() returned returncode; on a non-zero code the header
\* struct.pack("!Q", len(error_msg)) and error_msg.encode('utf-8') are
\* written.
SendWait(c, returncode, stderr) ==
    /\ conn[c].pc = "wait"
    /\ conn' = [conn EXCEPT
            ![c].pc = "done",
            ![c].rc = returncode,
            ![c].out = IF returncode # 0
                       THEN Append(@, Frame(ErrorMsgChars(stderr),
                                            ErrorMsgBytes(stderr)))
                       ELSE @]
    /\ UNCHANGED <<now, nextId, zfsKey, ownerIdx, ownerExp, rv, hist>>
    /\ UNCHANGED jobVars
    /\ UNCHANGED migVars

\* A sendall raised (the client went away): the exception is logged and the
\* handler returns.
SendAbort(c) ==
    /\ conn[c].pc \in {"stream", "wait"}
    /\ conn' = [conn EXCEPT ![c].pc = "aborted"]
    /\ UNCHANGED <<now, nextId, zfsKey, ownerIdx, ownerExp, rv, hist>>
    /\ UNCHANGED jobVars
    /\ UNCHANGED migVars

\* ======================================================= replication engine

\* Snapshot names, in the order of their creation; "migrate" stands for the
\* snapshot migrate-<date> that the engine creates itself.
SnapNames == {"s1", "s2", "S2"}
CreationOrder == <<"s1", "s2", "S2", "migrate">>

\* Python's None.
None == "None"

Range(seq) == {seq[i] : i \in DOMAIN seq}

\* get_snapshots: zfs list -t snapshot lists a dataset's snapshots in the
\* order of their creation.
InSet(set, n) == n \in set
SnapList(set) == SelectSeq(CreationOrder, LAMBDA n : InSet(set, n))

Last(seq) == seq[Len(seq)]

\* str.lower()
Lower(n) == IF n = "S2" THEN "s2" ELSE n
LowerSeq(seq) == [i \in DOMAIN seq |-> Lower(seq[i])]

\* The snapshots of dest that source has too, in dest's order.
CommonSnaps(source, dest) == SelectSeq(dest, LAMBDA n : InSet(Range(source), n))

\* zfs.engociate_inc_send(source_snapshots, dest_snapshots): the last
\* snapshot of dest that source has too (by name, else by lower-cased
\* name) and the last snapshot of source; (None, None) without a match.
InitSnap(source, dest) ==
    IF source = << >> \/ dest = << >> THEN None
    ELSE IF CommonSnaps(source, dest) # << >>
         THEN Last(CommonSnaps(source, dest))
         ELSE LET common_lower == CommonSnaps(LowerSeq(source), LowerSeq(dest))
              IN  IF common_lower = << >> THEN None
                  ELSE LET idx == CHOOSE i \in DOMAIN dest :
                                    /\ Lower(dest[i]) = Last(common_lower)
                                    /\ \A h \in 1 .. i - 1 :
                                          Lower(dest[h]) # Last(common_lower)
                       IN  dest[idx]

engociate_inc_send(source, dest) ==
    LET init_snap == InitSnap(source, dest)
    IN  <<init_snap, IF init_snap # None /\ source # << >>
                     THEN Last(source) ELSE None>>

NoPlan == [base |-> None, target |-> None, check |-> FALSE]

NoRun ==
    [pc |-> "idle", mode |-> "none", src |-> {}, dst |-> {}, exists |-> FALSE,
     token |-> None, create |-> FALSE, src0 |-> {}, dst0 |-> {},
     exists0 |-> FALSE, token0 |-> None, cmds |-> << >>, sends |-> 0,
     resumeFailed |-> FALSE, sendsAtResume |-> 0, recvFailed |-> FALSE,
     lastFailed |-> FALSE, plan |-> NoPlan, ret |-> "unset", exit |-> -1,
     job |-> "running", sync |-> FALSE, srcHolds |-> {}, dstHolds |-> {}]

InitMigVars ==
    /\ mg = NoRun
    /\ bld = [called |-> FALSE]

Modes == {"ssh_send", "local_send"}

\* handle_migration_task starts standalone_migrate.py for source -> dest
\* (main builds ssh_send or local_send); the arguments are the state of the
\* two datasets and the --snap flag.  A destination that does not exist has
\* no snapshots and no resume token; the token names a snapshot that the
\* destination does not have yet.
MigStart(mode, src, dst, exists, token, create, sync) ==
    /\ mg.pc = "idle"
    /\ exists \/ (dst = {} /\ token = None)
    /\ token \notin dst
    /\ mg' = [NoRun EXCEPT !.pc = "probe", !.mode = mode, !.src = src,
                           !.dst = dst, !.exists = exists, !.token = token,
                           !.create = create, !.src0 = src, !.dst0 = dst,
                           !.exists0 = exists, !.token0 = token,
                           !.sync = sync]
    /\ UNCHANGED bld
    /\ UNCHANGED extVars
    /\ UNCHANGED tokVars
    /\ UNCHANGED jobVars

\* send_snapshot, first test.  ssh_send: is_zfs(recv_dataset), then the
\* receive_resume_token property of the remote dataset.  local_send:
\* is_zfs(dest) only.
MigProbe ==
    /\ mg.pc = "probe"
    /\ mg' = IF mg.mode = "ssh_send"
             THEN IF ~mg.exists
                  THEN [mg EXCEPT !.pc = "full", !.cmds = @ \o <<"is_zfs">>]
                  ELSE [mg EXCEPT
                          !.pc = IF mg.token # None THEN "resume" ELSE "list",
                          !.cmds = @ \o <<"is_zfs", "get_token">>]
             ELSE [mg EXCEPT !.pc = IF mg.exists THEN "list" ELSE "full",
                             !.cmds = @ \o <<"is_zfs">>]
    /\ UNCHANGED bld
    /\ UNCHANGED extVars
    /\ UNCHANGED tokVars
    /\ UNCHANGED jobVars

\* ssh_send: adaptive_send(resume_token=...) piped into uncompress_ssh_recv;
\* recv.communicate() and the test of its return code.
MigResume(rc) ==
    /\ mg.pc = "resume"
    /\ rc = 0 => mg.token \in mg.src
    /\ mg' = IF rc = 0
             THEN [mg EXCEPT !.pc = "return", !.ret = "0",
                             !.cmds = @ \o <<"send_resume">>,
                             !.sends = @ + 1,
                             !.dst = @ \cup {mg.token}, !.token = None,
                             !.lastFailed = FALSE]
             ELSE [mg EXCEPT !.pc = "diagnose",
                             !.cmds = @ \o <<"send_resume">>,
                             !.sends = @ + 1,
                             !.resumeFailed = TRUE, !.sendsAtResume = mg.sends + 1,
                             !.recvFailed = TRUE, !.lastFailed = TRUE]
    /\ UNCHANGED bld
    /\ UNCHANGED extVars
    /\ UNCHANGED tokVars
    /\ UNCHANGED jobVars

\* ssh_send after a failed resume: the token and the partial receive
\* dataset are reported, "zfs receive -A" is run on the destination, and
\* when its stderr says "dataset is busy" more diagnostics are collected.
MigDiagnose(busy) ==
    /\ mg.pc = "diagnose"
    /\ mg' = [mg EXCEPT
                !.pc = "fallback",
                !.token = IF busy THEN @ ELSE None,
                !.cmds = @ \o <<"get_token", "list_partial", "receive_abort">>
                           \o (IF busy
                               THEN <<"list_fds", "list_mounts", "get_all">>
                               ELSE << >>)
                           \o <<"get_token">>]
    /\ UNCHANGED bld
    /\ UNCHANGED extVars
    /\ UNCHANGED tokVars
    /\ UNCHANGED jobVars

\* ssh_send after the diagnostics: when the destination has snapshots the
\* send is negotiated again and run unless both names are equal; its
\* return code is tested.
MigFallback ==
    /\ mg.pc = "fallback"
    /\ LET n == engociate_inc_send(SnapList(mg.src), SnapList(mg.dst)) IN
        mg' = IF mg.dst = {}
              THEN [mg EXCEPT !.pc = "return", !.ret = "0",
                              !.cmds = @ \o <<"list_dst">>]
              ELSE IF n[1] # n[2]
              THEN [mg EXCEPT !.pc = "send",
                              !.cmds = @ \o <<"list_dst", "list_src">>,
                              !.plan = [base |-> n[1], target |-> n[2],
                                        check |-> TRUE]]
              ELSE [mg EXCEPT !.pc = "return", !.ret = "0",
                              !.cmds = @ \o <<"list_dst", "list_src">>]
    /\ UNCHANGED bld
    /\ UNCHANGED extVars
    /\ UNCHANGED tokVars
    /\ UNCHANGED jobVars

\* The plan of ssh_send for a destination with snapshots and no token.
SshPlan(snap, snap1) ==
    IF snap # None /\ snap1 # None /\ snap # snap1
    THEN [mg EXCEPT !.pc = "send",
                    !.plan = [base |-> snap, target |-> snap1,
                              check |-> FALSE]]
    ELSE IF snap = None
    THEN IF mg.create
         THEN [mg EXCEPT !.pc = "send", !.src = @ \cup {"migrate"},
                         !.plan = [base |-> None, target |-> "migrate",
                                   check |-> FALSE]]
         ELSE [mg EXCEPT !.pc = "return", !.ret = "None"]
    ELSE IF mg.create
         THEN [mg EXCEPT !.pc = "send", !.src = @ \cup {"migrate"},
                         !.plan = [base |-> snap, target |-> "migrate",
                                   check |-> FALSE]]
         ELSE [mg EXCEPT !.pc = "return", !.ret = "0"]

\* The plan of local_send for a destination with snapshots (main passes
\* verbose = True unless --quiet is given).
LocalPlan(snap, snap1) ==
    IF snap # None /\ snap1 # None
    THEN IF snap # snap1
         THEN [mg EXCEPT !.pc = "send",
                         !.plan = [base |-> snap, target |-> snap1,
                                   check |-> TRUE]]
         ELSE [mg EXCEPT !.pc = "return", !.ret = "0"]
    ELSE IF mg.create
         THEN [mg EXCEPT !.pc = "send", !.src = @ \cup {"migrate"},
                         !.plan = [base |-> None, target |-> "migrate",
                                   check |-> TRUE]]
         ELSE [mg EXCEPT !.pc = "return", !.ret = "0"]

\* send_snapshot for an existing destination without a usable token: the
\* destination's snapshots are listed; without any the engine only warns,
\* otherwise the source's are listed and the send is negotiated.
MigList ==
    /\ mg.pc = "list"
    /\ LET n == engociate_inc_send(SnapList(mg.src), SnapList(mg.dst))
           planned == IF mg.mode = "ssh_send" THEN SshPlan(n[1], n[2])
                      ELSE LocalPlan(n[1], n[2])
       IN mg' = IF mg.dst = {}
                THEN [mg EXCEPT !.pc = "return", !.ret = "0",
                                !.cmds = @ \o <<"list_dst">>]
                ELSE [planned EXCEPT !.cmds = @ \o <<"list_dst", "list_src">>]
    /\ UNCHANGED bld
    /\ UNCHANGED extVars
    /\ UNCHANGED tokVars
    /\ UNCHANGED jobVars

\* send_snapshot for a destination that does not exist (no snapshot was
\* named on the command line): a full send of the source's last snapshot,
\* or of a new one with --snap or when the source has none.
MigFull ==
    /\ mg.pc = "full"
    /\ mg' = IF ~mg.create /\ mg.src # {}
             THEN [mg EXCEPT !.pc = "send",
                             !.cmds = @ \o <<"list_src">>,
                             !.plan = [base |-> None,
                                       target |-> Last(SnapList(mg.src)),
                                       check |-> mg.mode = "local_send"]]
             ELSE [mg EXCEPT !.pc = "send", !.src = @ \cup {"migrate"},
                             !.cmds = @ \o <<"list_src">>,
                             !.plan = [base |-> None, target |-> "migrate",
                                       check |-> mg.mode = "local_send"]]
    /\ UNCHANGED bld
    /\ UNCHANGED extVars
    /\ UNCHANGED tokVars
    /\ UNCHANGED jobVars

\* zfs receive can accept the planned stream: the target and the base exist
\* on the source, an incremental stream's base exists on the destination,
\* and a full stream goes to a destination without snapshots.
RecvCanSucceed ==
    /\ mg.plan.target \in mg.src
    /\ mg.plan.base = None => mg.dst = {}
    /\ mg.plan.base # None => mg.plan.base \in mg.src \cap mg.dst

\* The snapshots that "zfs send -I base target" carries.
Sent ==
    LET after(n) ==
            mg.plan.base = None
            \/ \E i, k \in DOMAIN CreationOrder :
                  /\ CreationOrder[i] = mg.plan.base
                  /\ CreationOrder[k] = n
                  /\ i < k
        upto(n) ==
            \E i, k \in DOMAIN CreationOrder :
                  /\ CreationOrder[i] = n
                  /\ CreationOrder[k] = mg.plan.target
                  /\ i <= k
    IN  {n \in mg.src : (mg.plan.base # None => after(n)) /\ upto(n)}

\* Whether the send in progress is followed by the sync holds: every send of
\* ssh_send but the fallback after a failed resume is, when --sync is given.
\* The hold on the source is placed with zfs.hold, the one on the
\* destination with zfs_hold_remote, which finds the snapshot there only if
\* the receive succeeded.
SyncHolds == mg.sync /\ mg.mode = "ssh_send" /\ ~mg.plan.check

\* adaptive_send piped into the receive; recv.communicate(); the return
\* code is tested only where the code tests it; then the sync holds.
MigSend(rc) ==
    /\ mg.pc = "send"
    /\ rc = 0 => RecvCanSucceed
    /\ mg' = [mg EXCEPT
                !.pc = "return",
                !.cmds = @ \o <<"send">>,
                !.sends = @ + 1,
                !.dst = IF rc = 0 THEN @ \cup Sent ELSE @,
                !.exists = IF rc = 0 THEN TRUE ELSE @,
                !.recvFailed = @ \/ rc # 0,
                !.lastFailed = rc # 0,
                !.ret = IF rc # 0 /\ mg.plan.check THEN "1" ELSE "0",
                !.srcHolds = IF SyncHolds THEN @ \cup {mg.plan.target} ELSE @,
                !.dstHolds = IF SyncHolds /\ rc = 0
                             THEN @ \cup {mg.plan.target} ELSE @]
    /\ UNCHANGED bld
    /\ UNCHANGED extVars
    /\ UNCHANGED tokVars
    /\ UNCHANGED jobVars

\* main: "if result != 0: return result", then sys.exit(main()), where
\* sys.exit(None) exits with code 0; handle_migration_task raises on a
\* non-zero return code, and _process_task saves COMPLETED or FAILED.
MigReturn ==
    /\ mg.pc = "return"
    /\ mg' = [mg EXCEPT !.pc = "done",
                        !.exit = IF mg.ret = "1" THEN 1 ELSE 0,
                        !.job = IF mg.ret = "1" THEN "failed"
                                ELSE "completed"]
    /\ UNCHANGED bld
    /\ UNCHANGED extVars
    /\ UNCHANGED tokVars
    /\ UNCHANGED jobVars

\* ========================================================= command builder
\* ZFSCommands.send_snapshot (zfs_commands/builder.py): a pure function from
\* its arguments to an argv list.  It has no other outcome: no branch raises.

Dataset == "pool/a"

ResumeTokens == {None, "", "1-abc"}

FromSnaps == {None} \cup SnapNames

\* Python truthiness of an Optional[str]: None and "" are false.
Truthy(x) == x # None /\ x # ""

Flag(b, f) == IF b THEN <<f>> ELSE << >>

send_snapshot(dataset, snapshot, from_snapshot, recursive, raw, compressed, resume_token) ==
    IF Truthy(resume_token)
    THEN [raised |-> FALSE, cmd |-> <<"zfs", "send", "-t", resume_token>>]
    ELSE [raised |-> FALSE,
          cmd |-> <<"zfs", "send">> \o Flag(raw, "-w") \o Flag(compressed, "-c")
                  \o Flag(recursive, "-R")
                  \o (IF Truthy(from_snapshot)
                      THEN <<"-I", dataset \o "@" \o from_snapshot>>
                      ELSE << >>)
                  \o <<dataset \o "@" \o snapshot>>]

\* One call of the builder; bld keeps the arguments and the outcome.
BuildSend(snapshot, from_snapshot, recursive, raw, compressed, resume_token) ==
    /\ bld' = [called |-> TRUE, snapshot |-> snapshot,
               from_snapshot |-> from_snapshot, recursive |-> recursive,
               raw |-> raw, compressed |-> compressed,
               resume_token |-> resume_token,
               out |-> send_snapshot(Dataset, snapshot, from_snapshot,
                                     recursive, raw, compressed, resume_token)]
    /\ UNCHANGED mg
    /\ UNCHANGED extVars
    /\ UNCHANGED tokVars
    /\ UNCHANGED jobVars

\* ================================================================ launcher
\* MigrateLauncher (migrate_launcher.py) with the process group it starts:
\* the leader is the python process of standalone_migrate.py, started with
\* start_new_session=True; the children are the processes the leader starts
\* with Popen (zfs send, pv, the ssh receiver), which stay in the leader's group.

Kids == {"zfs_send", "pv", "ssh_recv"}

NoGroup ==
    [leader |-> "none", kid |-> [k \in Kids |-> "none"], cancel |-> "idle",
     term |-> FALSE, kill |-> FALSE, elapsed |-> FALSE, ret |-> "none"]

\* retry_delay = 1 at the start of _reconnect.
InitialDelay == 1

\* The cap in min(retry_delay * 2, 10).
MaxDelay == 10

NoReconnect ==
    [pc |-> "idle", client |-> "none", max_retries |-> 0, raise |-> FALSE,
     attempt |-> 0, retry_delay |-> InitialDelay, waits |-> << >>,
     ret |-> "none"]

\* run before its loop: total_size and last_progress are None (total_size
\* 0 stands for None: both are false in "if progress and self.total_size").
NoLines ==
    [clock |-> 0, total_size |-> 0, last_progress |-> NoRec,
     parsed |-> NoRec, previous |-> NoRec, emitted |-> FALSE,
     logged |-> FALSE]

InitExtVars ==
    /\ pg = NoGroup
    /\ mgr = "running"
    /\ rcn = NoReconnect
    /\ hd = [called |-> FALSE]
    /\ ng = [called |-> FALSE]
    /\ ln = NoLines

\* run: create_subprocess_exec(..., start_new_session=True).
PgSpawn ==
    /\ pg.leader = "none"
    /\ pg' = [pg EXCEPT !.leader = "running"]
    /\ UNCHANGED <<mg, bld>>
    /\ UNCHANGED exceptPg
    /\ UNCHANGED tokVars
    /\ UNCHANGED jobVars

\* The leader starts one process of its pipeline.
PgFork(k) ==
    /\ pg.leader = "running"
    /\ pg.kid[k] = "none"
    /\ pg' = [pg EXCEPT !.kid[k] = "running"]
    /\ UNCHANGED <<mg, bld>>
    /\ UNCHANGED exceptPg
    /\ UNCHANGED tokVars
    /\ UNCHANGED jobVars

\* A child exits: by itself, or of a signal it has been sent.
PgKidExit(k) ==
    /\ pg.kid[k] = "running"
    /\ pg' = [pg EXCEPT !.kid[k] = "exited"]
    /\ UNCHANGED <<mg, bld>>
    /\ UNCHANGED exceptPg
    /\ UNCHANGED tokVars
    /\ UNCHANGED jobVars

\* The leader exits (run's process.wait() returns): by itself, or of the
\* SIGTERM it has been sent.
PgLeaderExit ==
    /\ pg.leader = "running"
    /\ pg' = [pg EXCEPT !.leader = "exited"]
    /\ UNCHANGED <<mg, bld>>
    /\ UNCHANGED exceptPg
    /\ UNCHANGED tokVars
    /\ UNCHANGED jobVars

\* cancel: 'if self.process and self.process.returncode is None' fails
\* (no subprocess yet, or the leader was reaped): return False.  Otherwise
\* os.killpg(pgid, SIGTERM) and wait_for(self.process.wait(), timeout=5.0).
\* SIGTERM is delivered to every member; when a member dies of it is the
\* member's and the kernel's business (PgLeaderExit, PgKidExit).
LauncherCancel ==
    /\ pg.cancel = "idle"
    /\ IF pg.leader = "running"
       THEN pg' = [pg EXCEPT !.cancel = "wait", !.term = TRUE]
       ELSE pg' = [pg EXCEPT !.cancel = "returned", !.ret = "false"]
    /\ UNCHANGED <<mg, bld>>
    /\ UNCHANGED exceptPg
    /\ UNCHANGED tokVars
    /\ UNCHANGED jobVars

\* cancel: process.wait() returned within the five seconds: on_error is
\* notified and cancel returns True.
CancelLeaderReaped ==
    /\ pg.cancel \in {"wait", "kill_wait"}
    /\ pg.leader = "exited"
    /\ pg' = [pg EXCEPT !.cancel = "returned", !.ret = "true"]
    /\ UNCHANGED <<mg, bld>>
    /\ UNCHANGED exceptPg
    /\ UNCHANGED tokVars
    /\ UNCHANGED jobVars

\* cancel: asyncio.TimeoutError after five seconds with the leader alive:
\* os.killpg(pgid, SIGKILL), which no member survives, then process.wait().
CancelEscalates ==
    /\ pg.cancel = "wait"
    /\ pg.leader = "running"
    /\ pg' = [pg EXCEPT !.cancel = "kill_wait", !.kill = TRUE,
                        !.elapsed = TRUE, !.leader = "exited",
                        !.kid = [k \in Kids |->
                                    IF pg.kid[k] = "running" THEN "exited"
                                    ELSE pg.kid[k]]]
    /\ UNCHANGED <<mg, bld>>
    /\ UNCHANGED exceptPg
    /\ UNCHANGED tokVars
    /\ UNCHANGED jobVars

NextCancel ==
    \/ PgSpawn
    \/ \E k \in Kids : PgFork(k)
    \/ \E k \in Kids : PgKidExit(k)
    \/ PgLeaderExit
    \/ LauncherCancel
    \/ CancelLeaderReaped
    \/ CancelEscalates

\* ============================================================== reconnect
\* AsyncReliableRedis._reconnect and ReliableRedis._reconnect: the same loop,
\* awaited under a lock in the async client.

Clients == {"async", "sync"}

Min(a, b) == IF a < b THEN a ELSE b

\* A backoff that doubles without a cap.
NextDelayUncapped(d) == d * 2

\* retry_delay = min(retry_delay * 2, 10)
NextDelay(d) == Min(d * 2, MaxDelay)

\* _handle_persistent_failure: raises when raise_on_failure, else _reconnect
\* returns False.
GaveUp(r) == [r EXCEPT !.pc = "done", !.ret = IF r.raise THEN "raised" ELSE "false"]

\* _reconnect is entered: retry_delay = 1; range(1, max_retries + 1) is empty
\* for max_retries = 0.
ReconnectStart(client, max_retries, raise) ==
    /\ rcn.pc = "idle"
    /\ LET r == [NoReconnect EXCEPT !.client = client,
                                    !.max_retries = max_retries,
                                    !.raise = raise]
       IN  rcn' = IF max_retries = 0 THEN GaveUp(r)
                  ELSE [r EXCEPT !.pc = "attempt", !.attempt = 1]
    /\ UNCHANGED <<mg, bld>>
    /\ UNCHANGED exceptRcn
    /\ UNCHANGED tokVars
    /\ UNCHANGED jobVars

\* One attempt: _initialize_connection returns True (return True) or not.
ReconnectAttempt(success) ==
    /\ rcn.pc = "attempt"
    /\ rcn' = IF success THEN [rcn EXCEPT !.pc = "done", !.ret = "true"]
              ELSE IF rcn.attempt < rcn.max_retries
                   THEN [rcn EXCEPT !.pc = "sleep"]
                   ELSE GaveUp(rcn)
    /\ UNCHANGED <<mg, bld>>
    /\ UNCHANGED exceptRcn
    /\ UNCHANGED tokVars
    /\ UNCHANGED jobVars

\* sleep(retry_delay), the delay is doubled up to the cap, next attempt.
ReconnectSleep ==
    /\ rcn.pc = "sleep"
    /\ rcn' = [rcn EXCEPT !.pc = "attempt",
                          !.waits = Append(@, rcn.retry_delay),
                          !.retry_delay = NextDelay(@),
                          !.attempt = @ + 1]
    /\ UNCHANGED <<mg, bld>>
    /\ UNCHANGED exceptRcn
    /\ UNCHANGED tokVars
    /\ UNCHANGED jobVars

NextReconnect ==
    \/ \E client \in Clients, max_retries \in 0 .. MaxRetries,
          raise \in BOOLEAN : ReconnectStart(client, max_retries, raise)
    \/ \E success \in BOOLEAN : ReconnectAttempt(success)
    \/ ReconnectSleep

\* ============================================================= sync holds
\* ssh_send.cleanup_sync (standalone_migrate.py), called right after the
\* hold of a sync point was placed on the source.

\* Peers as the '_'-separated parts of their names: "bk" and "bk_2".
Hosts == {<<"bk">>, <<"bk", "2">>}

\* Earlier sync points, and the one being placed.
Stamps == <<"2026-01-01-00-00-00", "2026-01-02-00-00-00", "2026-01-03-00-00-00">>
OldStamps == {Stamps[i] : i \in 1 .. Len(Stamps) - 1}
NewStamp == Stamps[Len(Stamps)]

\* Strings of strftime('%Y-%m-%d-%H-%M-%S') compare as their times do.
Earlier(a, b) == \E i, k \in DOMAIN Stamps : Stamps[i] = a /\ Stamps[k] = b /\ i < k

\* The snapshots of the source, oldest first (zfs.get_snapshots).
HeldSnaps == <<"s1", "s2">>

\* "sync" + '_' + timestamp + '_' + host
SyncTag(stamp, host) == [stamp |-> stamp, peer |-> host]

OldTags == {SyncTag(t, h) : t \in OldStamps, h \in Hosts}

\* tag.split('_')
Parts(tag) == <<"sync", tag.stamp>> \o tag.peer

\* parts[0] == 'sync' and parts[2] == self.host: the third part against the
\* whole name of the host.
ForHost(tag, host) == Parts(tag)[1] = "sync" /\ <<Parts(tag)[3]>> = host

\* The order of the strings "sync_<stamp>_<peer>".
TagBefore(a, b) ==
    \/ Earlier(a.stamp, b.stamp)
    \/ a.stamp = b.stamp /\ Len(a.peer) < Len(b.peer)

\* zfs.holds returns the tags of a snapshot in descending order, and the
\* loop keeps the last one that matches: host_holds[snap] = tag.
HostHold(tags, host) ==
    CHOOSE t \in {u \in tags : ForHost(u, host)} :
        \A u \in {v \in tags : ForHost(v, host)} : u = t \/ TagBefore(t, u)

\* host_holds.keys(): the snapshots with a matching tag, oldest first.
HostSnaps(holds, host) ==
    SelectSeq(HeldSnaps, LAMBDA n : \E t \in holds[n] : ForHost(t, host))

\* cleanup_sync: release(dataset, i, host_holds[i]) for every key but the
\* last.
cleanup_sync(holds, host) ==
    LET keys == HostSnaps(holds, host) IN
    [n \in DOMAIN holds |->
        IF \E i \in 1 .. Len(keys) - 1 : keys[i] = n
        THEN holds[n] \ {HostHold(holds[n], host)}
        ELSE holds[n]]

\* A sync point of a run towards host with the holds 'old' on the source:
\* zfs.hold(dataset, snap1, tag) on the snapshot just sent, the newest, then
\* cleanup_sync.
SyncPoint(host, old) ==
    LET snap1 == HeldSnaps[Len(HeldSnaps)]
        held == [old EXCEPT ![snap1] = @ \cup {SyncTag(NewStamp, host)}]
    IN  /\ hd' = [called |-> TRUE, host |-> host, snap1 |-> snap1,
                  before |-> held, after |-> cleanup_sync(held, host)]
        /\ UNCHANGED <<mg, bld>>
        /\ UNCHANGED exceptHd
        /\ UNCHANGED tokVars
        /\ UNCHANGED jobVars

NextHolds ==
    \E host \in Hosts, old \in [{"s1", "s2"} -> SUBSET OldTags] :
        SyncPoint(host, old)

\* ============================================================ negotiation
\* zfs.engociate_inc_send on its own: the lists are those of get_snapshots
\* for a source and a destination dataset.

SnapSets == SUBSET Range(CreationOrder)

Negotiate(source_snapshots, dest_snapshots) ==
    /\ ng' = [called |-> TRUE, source |-> source_snapshots,
              dest |-> dest_snapshots,
              out |-> engociate_inc_send(source_snapshots, dest_snapshots)]
    /\ UNCHANGED <<mg, bld>>
    /\ UNCHANGED exceptNg
    /\ UNCHANGED tokVars
    /\ UNCHANGED jobVars

NextNegotiate ==
    \E src \in SnapSets, dst \in SnapSets :
        Negotiate(SnapList(src), SnapList(dst))

\* ========================================================= progress lines
\* MigrateLauncher.run's loop over the lines of the subprocess's stderr, and
\* parse_pv_line.  Percentages are kept in tenths of a percent.

\* Bytes of a size estimate, and of the transferred count of a pv line.
Sizes == {2, 4}
Counts == {1, 2}

\* The "NN%" a pv line shows.
Shown == {0, 50}

\* The lines: a size estimate, a pv line, anything else.
Lines ==
    {[kind |-> "size", n |-> n] : n \in Sizes}
        \cup {[kind |-> "pv", bytes |-> b, pct |-> p] : b \in Counts, p \in Shown}
        \cup {[kind |-> "other"]}

\* parse_pv_line(line) at clock reading t: None unless the line starts with
\* a byte count; the record carries the time of parsing and self.total_size.
parse_pv_line(line, t, total_size) ==
    IF line.kind # "pv" THEN NoRec
    ELSE [timestamp |-> t, status |-> "progress",
          bytes_transferred |-> line.bytes, bytes_total |-> total_size,
          percentage |-> line.pct * 10, rate_mbps |-> 0, eta_seconds |-> 0,
          elapsed_seconds |-> t]

\* round((bytes_transferred / total_size) * 100, 1), in tenths.
Recalculated(bytes, total) == (bytes * 2000 + total) \div (2 * total)

\* run: "if progress and self.total_size": bytes_total and percentage are
\* set on the parsed dict itself, which then becomes last_progress.
Updated(progress, total_size) ==
    IF total_size = 0 THEN progress
    ELSE [progress EXCEPT
            !.bytes_total = total_size,
            !.percentage = Recalculated(progress.bytes_transferred,
                                        total_size)]

\* The clock moves on between two lines.
LineTick ==
    /\ ln.clock < MaxClock
    /\ ln' = [ln EXCEPT !.clock = @ + 1, !.emitted = FALSE, !.logged = FALSE]
    /\ UNCHANGED <<mg, bld>>
    /\ UNCHANGED exceptLn
    /\ UNCHANGED tokVars
    /\ UNCHANGED jobVars

\* run: one non-empty line is complete: the size estimate is noted, the line
\* is parsed, and it is passed to on_progress or to on_log.
ReadLine(line) ==
    /\ LET total_size == IF line.kind = "size" THEN line.n ELSE ln.total_size
           progress == parse_pv_line(line, ln.clock, total_size)
           emit == progress # NoRec /\ progress # ln.last_progress
       IN  ln' = [ln EXCEPT
                    !.total_size = total_size,
                    !.last_progress = IF emit THEN Updated(progress, total_size)
                                      ELSE @,
                    !.parsed = progress,
                    !.previous = IF ln.parsed # NoRec THEN ln.parsed ELSE @,
                    !.emitted = emit,
                    !.logged = ~emit]
    /\ UNCHANGED <<mg, bld>>
    /\ UNCHANGED exceptLn
    /\ UNCHANGED tokVars
    /\ UNCHANGED jobVars

NextLines ==
    \/ LineTick
    \/ \E line \in Lines : ReadLine(line)

\* ===================================================== background job manager

\* Task(id, type, status=PENDING, created_at, params): the optional fields
\* are None (FALSE, "none", 0).
NewTask ==
    [status |-> "pending", started_at |-> FALSE, completed_at |-> FALSE,
     result |-> "none", error |-> FALSE, progress |-> 0]

\* redis.hgetall(task:<id>) through get_task: None when the hash is missing
\* or the command failed.
GetTask(j) == IF redisUp THEN task[j] ELSE NoRec

\* _save_task: hset of the fields of t that are not None over the stored hash.
Saved(old, t) ==
    LET o == IF old = NoRec THEN NewTask ELSE old
    IN  [status |-> t.status,
         started_at |-> o.started_at \/ t.started_at,
         completed_at |-> o.completed_at \/ t.completed_at,
         result |-> IF t.result # "none" THEN t.result ELSE o.result,
         error |-> o.error \/ t.error,
         progress |-> IF t.progress # 0 THEN t.progress ELSE o.progress]

\* The stored hash after _save_task(t); a failed hset is logged and ignored.
SaveTask(j, t) == IF redisUp THEN Saved(task[j], t) ELSE task[j]

\* The 5-second window of cancel_task restarts when completed_at is written.
FreshAfterSave(j, t) == IF redisUp /\ t.completed_at THEN TRUE ELSE fresh[j]

IdleWorker == [pc |-> "idle", tid |-> 0, t |-> NoRec, p |-> 0, pt |-> NoRec]

IdleCaller ==
    [pc |-> "idle", tid |-> 0, t |-> NoRec, ret |-> "none",
     second |-> FALSE, acted |-> FALSE]

NoProc == [st |-> "none", rc |-> 0, lines |-> 0, emitted |-> 0]

InitJobVars ==
    /\ redisUp = TRUE
    /\ faults = 0
    /\ queue = << >>
    /\ task = [j \in Jobs |-> NoRec]
    /\ fresh = [j \in Jobs |-> FALSE]
    /\ cr = [j \in Jobs |-> "none"]
    /\ running_tasks = {}
    /\ proc = [j \in Jobs |-> NoProc]
    /\ wk = [w \in Workers |-> IdleWorker]
    /\ cn = [c \in Callers |-> IdleCaller]
    /\ jh = [j \in Jobs |-> [killed |-> FALSE, handlerDone |-> FALSE,
                             processed |-> FALSE, cancelTrue |-> FALSE,
                             pushedAt |-> 0, poppedAt |-> 0]]

\* create_task, first await: _save_task of the new pending record.
CreateSave(j) ==
    /\ cr[j] = "none"
    /\ \A k \in Jobs : k < j => cr[k] # "none"
    /\ cr' = [cr EXCEPT ![j] = "saved"]
    /\ task' = [task EXCEPT ![j] = SaveTask(j, NewTask)]
    /\ UNCHANGED <<redisUp, faults, queue, fresh, running_tasks, proc, wk, cn,
                   jh>>
    /\ UNCHANGED tokVars
    /\ UNCHANGED migVars

\* A push at the head of the list.
Lpush(q, j) == <<j>> \o q

\* redis.rpush(queue_key, task_id): the id goes to the tail of the list.
Rpush(q, j) == Append(q, j)

\* The position of the next push (pop) in the order of pushes (pops).
NextPush == 1 + Cardinality({k \in Jobs : jh[k].pushedAt > 0})
NextPop == 1 + Cardinality({k \in Jobs : jh[k].poppedAt > 0})

\* create_task, second await: rpush of the id; the id is then returned.
CreatePush(j) ==
    /\ cr[j] = "saved"
    /\ cr' = [cr EXCEPT ![j] = "queued"]
    /\ queue' = IF redisUp THEN Rpush(queue, j) ELSE queue
    /\ jh' = IF redisUp THEN [jh EXCEPT ![j].pushedAt = NextPush] ELSE jh
    /\ UNCHANGED <<redisUp, faults, task, fresh, running_tasks, proc, wk, cn>>
    /\ UNCHANGED tokVars
    /\ UNCHANGED migVars

\* create_task, second await, when the connection drops after the server
\* applied the rpush and before its reply is read: execute catches the
\* connection error, reconnects and issues the rpush again.
CreatePushRetried(j) ==
    /\ cr[j] = "saved"
    /\ redisUp
    /\ faults < MaxFaults
    /\ faults' = faults + 1
    /\ cr' = [cr EXCEPT ![j] = "queued"]
    /\ queue' = Rpush(Rpush(queue, j), j)
    /\ jh' = [jh EXCEPT ![j].pushedAt = NextPush]
    /\ UNCHANGED <<redisUp, task, fresh, running_tasks, proc, wk, cn>>
    /\ UNCHANGED tokVars
    /\ UNCHANGED migVars

\* The service after start-up: no token issued, no job created.
Init == InitTokVars /\ InitJobVars /\ InitMigVars /\ InitExtVars

\* _worker / _get_next_task: blpop hands the head of the queue to a worker.
GetNextTask(w) ==
    /\ wk[w].pc = "idle"
    /\ redisUp
    /\ queue # << >>
    /\ wk' = [wk EXCEPT ![w] = [IdleWorker EXCEPT !.pc = "load",
                                                  !.tid = Head(queue)]]
    /\ queue' = Tail(queue)
    /\ jh' = [jh EXCEPT ![Head(queue)].poppedAt = NextPop]
    /\ UNCHANGED <<redisUp, faults, task, fresh, cr, running_tasks, proc, cn>>
    /\ UNCHANGED tokVars
    /\ UNCHANGED migVars

\* _worker: asyncio.wait_for(self._get_next_task(), timeout=1.0) around
\* blpop(timeout=1): the timer cancels the coroutine while the server, which
\* still holds the blocked client, pops the head for it; the worker sees
\* TimeoutError and continues without the id.
GetNextTaskCancelled(w) ==
    /\ wk[w].pc = "idle"
    /\ redisUp
    /\ queue # << >>
    /\ queue' = Tail(queue)
    /\ UNCHANGED <<redisUp, faults, task, fresh, cr, running_tasks, proc, wk,
                   cn, jh>>
    /\ UNCHANGED tokVars
    /\ UNCHANGED migVars

\* _process_task: get_task; a missing or non-pending task is dropped,
\* otherwise the loaded object becomes RUNNING with started_at set.
ProcessLoad(w) ==
    /\ wk[w].pc = "load"
    /\ LET t == GetTask(wk[w].tid) IN
        wk' = [wk EXCEPT ![w] =
            IF t = NoRec \/ t.status # "pending"
            THEN IdleWorker
            ELSE [@ EXCEPT !.pc = "save_running",
                           !.t = [t EXCEPT !.status = "running",
                                           !.started_at = TRUE]]]
    /\ UNCHANGED <<redisUp, faults, queue, task, fresh, cr, running_tasks,
                   proc, cn, jh>>
    /\ UNCHANGED tokVars
    /\ UNCHANGED migVars

\* _process_task: _save_task of the RUNNING object.
SaveRunning(w) ==
    /\ wk[w].pc = "save_running"
    /\ task' = [task EXCEPT ![wk[w].tid] = SaveTask(wk[w].tid, wk[w].t)]
    /\ wk' = [wk EXCEPT ![w].pc = "start"]
    /\ UNCHANGED <<redisUp, faults, queue, fresh, cr, running_tasks, proc, cn,
                   jh>>
    /\ UNCHANGED tokVars
    /\ UNCHANGED migVars

\* handle_migration_task: the launcher is stored in running_tasks and
\* launcher.run awaits create_subprocess_exec (launcher.process is None).
StartHandler(w) ==
    /\ wk[w].pc = "start"
    /\ running_tasks' = running_tasks \cup {wk[w].tid}
    /\ wk' = [wk EXCEPT ![w].pc = "spawn"]
    /\ UNCHANGED <<redisUp, faults, queue, task, fresh, cr, proc, cn, jh>>
    /\ UNCHANGED tokVars
    /\ UNCHANGED migVars

\* launcher.run: the subprocess exists; the stderr read loop begins.
Spawn(w) ==
    /\ wk[w].pc = "spawn"
    /\ proc' = [proc EXCEPT ![wk[w].tid] = [NoProc EXCEPT !.st = "running"]]
    /\ wk' = [wk EXCEPT ![w].pc = "stream"]
    /\ UNCHANGED <<redisUp, faults, queue, task, fresh, cr, running_tasks, cn,
                   jh>>
    /\ UNCHANGED tokVars
    /\ UNCHANGED migVars

\* The subprocess writes one more pv progress line to stderr.
ProcOutput(j) ==
    /\ proc[j].st = "running"
    /\ proc[j].emitted < MaxLines
    /\ proc' = [proc EXCEPT ![j].emitted = @ + 1, ![j].lines = @ + 1]
    /\ UNCHANGED <<redisUp, faults, queue, task, fresh, cr, running_tasks, wk,
                   cn, jh>>
    /\ UNCHANGED tokVars
    /\ UNCHANGED migVars

\* The subprocess exits by itself.
ProcExit(j) ==
    /\ proc[j].st = "running"
    /\ \E rc \in ExitCodes :
        proc' = [proc EXCEPT ![j].st = "exited", ![j].rc = rc]
    /\ UNCHANGED <<redisUp, faults, queue, task, fresh, cr, running_tasks, wk,
                   cn, jh>>
    /\ UNCHANGED tokVars
    /\ UNCHANGED migVars

\* launcher.run: a line parsed by parse_pv_line that differs from the last
\* one; on_progress calls update_task_progress, which awaits get_task.
ReadProgress(w) ==
    /\ wk[w].pc = "stream"
    /\ proc[wk[w].tid].lines > 0
    /\ wk' = [wk EXCEPT ![w].pc = "prog_get",
                        ![w].p = proc[wk[w].tid].emitted
                                   - proc[wk[w].tid].lines + 1]
    /\ proc' = [proc EXCEPT ![wk[w].tid].lines = @ - 1]
    /\ UNCHANGED <<redisUp, faults, queue, task, fresh, cr, running_tasks, cn,
                   jh>>
    /\ UNCHANGED tokVars
    /\ UNCHANGED migVars

\* update_task_progress: get_task, then task.progress = progress.
ProgGet(w) ==
    /\ wk[w].pc = "prog_get"
    /\ LET t == GetTask(wk[w].tid) IN
        wk' = [wk EXCEPT ![w] =
            IF t = NoRec
            THEN [@ EXCEPT !.pc = "stream", !.p = 0]
            ELSE [@ EXCEPT !.pc = "prog_save", !.p = 0,
                           !.pt = [t EXCEPT !.progress = wk[w].p]]]
    /\ UNCHANGED <<redisUp, faults, queue, task, fresh, cr, running_tasks,
                   proc, cn, jh>>
    /\ UNCHANGED tokVars
    /\ UNCHANGED migVars

\* update_task_progress: _save_task of the whole object it read.
ProgSave(w) ==
    /\ wk[w].pc = "prog_save"
    /\ task' = [task EXCEPT ![wk[w].tid] = SaveTask(wk[w].tid, wk[w].pt)]
    /\ fresh' = [fresh EXCEPT ![wk[w].tid] =
                    FreshAfterSave(wk[w].tid, wk[w].pt)]
    /\ wk' = [wk EXCEPT ![w].pc = "stream", ![w].pt = NoRec]
    /\ UNCHANGED <<redisUp, faults, queue, cr, running_tasks, proc, cn, jh>>
    /\ UNCHANGED tokVars
    /\ UNCHANGED migVars

\* What _process_task makes of the object it loaded once the handler is
\* done: COMPLETED with the handler's result (cancelled for return code -15),
\* FAILED with an error when the handler raised (any other non-zero code).
Outcome(t, rc) ==
    IF rc = -15
    THEN [t EXCEPT !.status = "completed", !.completed_at = TRUE,
                   !.result = "cancelled"]
    ELSE IF rc # 0
    THEN [t EXCEPT !.status = "failed", !.completed_at = TRUE,
                   !.error = TRUE]
    ELSE [t EXCEPT !.status = "completed", !.completed_at = TRUE,
                   !.result = "ok"]

\* launcher.run reads end of file and process.wait() returns; the handler's
\* finally removes the launcher from running_tasks; _process_task sets the
\* outcome on its object and awaits _save_task.
HandlerReturns(w) ==
    /\ wk[w].pc = "stream"
    /\ proc[wk[w].tid].st = "exited"
    /\ proc[wk[w].tid].lines = 0
    /\ running_tasks' = running_tasks \ {wk[w].tid}
    /\ wk' = [wk EXCEPT ![w].pc = "save_final",
                        ![w].t = Outcome(wk[w].t, proc[wk[w].tid].rc)]
    /\ jh' = [jh EXCEPT ![wk[w].tid].handlerDone = TRUE]
    /\ UNCHANGED <<redisUp, faults, queue, task, fresh, cr, proc, cn>>
    /\ UNCHANGED tokVars
    /\ UNCHANGED migVars

\* _process_task: _save_task of the outcome; the worker takes the next task.
SaveFinal(w) ==
    /\ wk[w].pc = "save_final"
    /\ task' = [task EXCEPT ![wk[w].tid] = SaveTask(wk[w].tid, wk[w].t)]
    /\ fresh' = [fresh EXCEPT ![wk[w].tid] =
                    FreshAfterSave(wk[w].tid, wk[w].t)]
    /\ jh' = [jh EXCEPT ![wk[w].tid].processed = TRUE]
    /\ wk' = [wk EXCEPT ![w] = IdleWorker]
    /\ UNCHANGED <<redisUp, faults, queue, cr, running_tasks, proc, cn>>
    /\ UNCHANGED tokVars
    /\ UNCHANGED migVars

\* cancel_task's test on a task that is not RUNNING: it completed with the
\* cancelled flag less than 5 seconds ago.
JustCancelled(j, t) ==
    /\ t.status = "completed"
    /\ t.completed_at
    /\ t.result = "cancelled"
    /\ fresh[j]

\* cancel_task returns ret to caller c.
Returned(caller, ret) ==
    [caller EXCEPT !.pc = "done", !.t = NoRec,
                   !.ret = IF ret THEN "true" ELSE "false"]

\* cancel_task up to its next await: get_task; a task that is not RUNNING is
\* answered at once; a RUNNING task without a launcher returns True; with a
\* launcher, launcher.cancel signals the process group of a live subprocess
\* and awaits its exit, or returns at once when there is no live subprocess.
CancelGet(c, j) ==
    /\ cn[c].pc = "idle"
    /\ cr[j] = "queued"
    /\ LET t == GetTask(j)
           me == [cn[c] EXCEPT !.tid = j, !.second = jh[j].cancelTrue]
       IN
        IF t = NoRec
        THEN /\ cn' = [cn EXCEPT ![c] = Returned(me, FALSE)]
             /\ UNCHANGED <<running_tasks, proc, jh>>
        ELSE IF t.status # "running"
        THEN /\ cn' = [cn EXCEPT ![c] = Returned(me, JustCancelled(j, t))]
             /\ jh' = [jh EXCEPT ![j].cancelTrue = @ \/ JustCancelled(j, t)]
             /\ UNCHANGED <<running_tasks, proc>>
        ELSE IF j \notin running_tasks
        THEN /\ cn' = [cn EXCEPT ![c] = Returned(me, TRUE)]
             /\ jh' = [jh EXCEPT ![j].cancelTrue = TRUE]
             /\ UNCHANGED <<running_tasks, proc>>
        ELSE IF proc[j].st = "running"
        THEN /\ \E rc \in KillCodes :
                  proc' = [proc EXCEPT ![j].st = "exited", ![j].rc = rc]
             /\ cn' = [cn EXCEPT ![c] = [me EXCEPT !.pc = "kill_wait",
                                                   !.acted = TRUE]]
             /\ jh' = [jh EXCEPT ![j].killed = TRUE]
             /\ UNCHANGED running_tasks
        ELSE /\ running_tasks' = running_tasks \ {j}
             /\ cn' = [cn EXCEPT ![c] = [me EXCEPT !.pc = "refetch",
                                                   !.acted = TRUE]]
             /\ UNCHANGED <<proc, jh>>
    /\ UNCHANGED <<redisUp, faults, queue, task, fresh, cr, wk>>
    /\ UNCHANGED tokVars
    /\ UNCHANGED migVars

\* launcher.cancel's wait on the signalled subprocess is over: cancelled is
\* True, the finally deletes the launcher, and the task is fetched again.
CancelWaited(c) ==
    /\ cn[c].pc = "kill_wait"
    /\ proc[cn[c].tid].st = "exited"
    /\ running_tasks' = running_tasks \ {cn[c].tid}
    /\ cn' = [cn EXCEPT ![c].pc = "refetch"]
    /\ UNCHANGED <<redisUp, faults, queue, task, fresh, cr, proc, wk, jh>>
    /\ UNCHANGED tokVars
    /\ UNCHANGED migVars

\* cancel_task: the re-fetch; a task still RUNNING becomes CANCELLED with
\* completed_at set and is saved, otherwise True is returned.
CancelRefetch(c) ==
    /\ cn[c].pc = "refetch"
    /\ LET t == GetTask(cn[c].tid) IN
        IF t # NoRec /\ t.status = "running"
        THEN /\ cn' = [cn EXCEPT ![c].pc = "save",
                                 ![c].t = [t EXCEPT !.status = "cancelled",
                                                    !.completed_at = TRUE]]
             /\ UNCHANGED jh
        ELSE /\ cn' = [cn EXCEPT ![c] = Returned(cn[c], TRUE)]
             /\ jh' = [jh EXCEPT ![cn[c].tid].cancelTrue = TRUE]
    /\ UNCHANGED <<redisUp, faults, queue, task, fresh, cr, running_tasks,
                   proc, wk>>
    /\ UNCHANGED tokVars
    /\ UNCHANGED migVars

\* cancel_task: _save_task of the CANCELLED object, then return True.
CancelSave(c) ==
    /\ cn[c].pc = "save"
    /\ task' = [task EXCEPT ![cn[c].tid] = SaveTask(cn[c].tid, cn[c].t)]
    /\ fresh' = [fresh EXCEPT ![cn[c].tid] =
                    FreshAfterSave(cn[c].tid, cn[c].t)]
    /\ cn' = [cn EXCEPT ![c] = Returned(cn[c], TRUE)]
    /\ jh' = [jh EXCEPT ![cn[c].tid].cancelTrue = TRUE]
    /\ UNCHANGED <<redisUp, faults, queue, cr, running_tasks, proc, wk>>
    /\ UNCHANGED tokVars
    /\ UNCHANGED migVars

\* Five seconds have passed since completed_at was last written.
WindowElapses(j) ==
    /\ fresh[j]
    /\ fresh' = [fresh EXCEPT ![j] = FALSE]
    /\ UNCHANGED <<redisUp, faults, queue, task, cr, running_tasks, proc, wk,
                   cn, jh>>
    /\ UNCHANGED tokVars
    /\ UNCHANGED migVars

\* AsyncReliableRedis.execute: the connection is lost and the reconnect
\* attempts run out, so commands return None until the server is back.
RedisFail ==
    /\ redisUp
    /\ faults < MaxFaults
    /\ redisUp' = FALSE
    /\ faults' = faults + 1
    /\ UNCHANGED <<queue, task, fresh, cr, running_tasks, proc, wk, cn, jh>>
    /\ UNCHANGED tokVars
    /\ UNCHANGED migVars

RedisRecover ==
    /\ ~redisUp
    /\ redisUp' = TRUE
    /\ UNCHANGED <<faults, queue, task, fresh, cr, running_tasks, proc, wk,
                   cn, jh>>
    /\ UNCHANGED tokVars
    /\ UNCHANGED migVars

NextJob ==
    \/ \E j \in FirstJob : CreateSave(j)
    \/ \E j \in FirstJob : CreatePush(j)
    \/ \E w \in FirstWorker : GetNextTask(w)
    \/ \E w \in FirstWorker : ProcessLoad(w)
    \/ \E w \in FirstWorker : SaveRunning(w)
    \/ \E w \in FirstWorker : StartHandler(w)
    \/ \E w \in FirstWorker : Spawn(w)
    \/ \E j \in FirstJob : ProcOutput(j)
    \/ \E j \in FirstJob : ProcExit(j)
    \/ \E w \in FirstWorker : ReadProgress(w)
    \/ \E w \in FirstWorker : ProgGet(w)
    \/ \E w \in FirstWorker : ProgSave(w)
    \/ \E w \in FirstWorker : HandlerReturns(w)
    \/ \E w \in FirstWorker : SaveFinal(w)
    \/ \E c \in Callers, j \in FirstJob : CancelGet(c, j)
    \/ \E c \in Callers : CancelWaited(c)
    \/ \E c \in Callers : CancelRefetch(c)
    \/ \E c \in Callers : CancelSave(c)
    \/ \E j \in FirstJob : WindowElapses(j)

NextJobFaults ==
    \/ NextJob
    \/ RedisFail
    \/ RedisRecover

\* Three jobs created concurrently and two workers taking them from the
\* queue and running them to the end.
NextQueue ==
    \/ \E j \in Jobs : CreateSave(j)
    \/ \E j \in Jobs : CreatePush(j)
    \/ \E w \in Workers : GetNextTask(w)
    \/ \E w \in Workers : ProcessLoad(w)
    \/ \E w \in Workers : SaveRunning(w)
    \/ \E w \in Workers : StartHandler(w)
    \/ \E w \in Workers : Spawn(w)
    \/ \E j \in Jobs : ProcExit(j)
    \/ \E w \in Workers : HandlerReturns(w)
    \/ \E w \in Workers : SaveFinal(w)

SpecQueue == Init /\ [][NextQueue]_vars

\* One job, two workers, and an rpush that execute may retry.
NextOwn ==
    \/ \E j \in FirstJob : CreateSave(j)
    \/ \E j \in FirstJob : CreatePush(j)
    \/ \E j \in FirstJob : CreatePushRetried(j)
    \/ \E w \in Workers : GetNextTask(w)
    \/ \E w \in Workers : ProcessLoad(w)
    \/ \E w \in Workers : SaveRunning(w)
    \/ \E w \in Workers : StartHandler(w)
    \/ \E w \in Workers : Spawn(w)
    \/ \E j \in FirstJob : ProcOutput(j)
    \/ \E j \in FirstJob : ProcExit(j)
    \/ \E w \in Workers : ReadProgress(w)
    \/ \E w \in Workers : ProgGet(w)
    \/ \E w \in Workers : ProgSave(w)
    \/ \E w \in Workers : HandlerReturns(w)
    \/ \E w \in Workers : SaveFinal(w)

SpecOwn == Init /\ [][NextOwn]_vars

\* The running manager: jobs are created, two workers poll the queue, the
\* Redis connection can fail and comes back.  Every step of the manager and
\* of a handler that is possible is eventually taken, and an outage ends.
NextLive ==
    \/ NextQueue
    \/ \E w \in Workers : GetNextTaskCancelled(w)
    \/ RedisFail
    \/ RedisRecover

LiveSpec ==
    Init /\ [][NextLive]_vars /\ WF_vars(NextQueue) /\ WF_vars(RedisRecover)

\* One replication run, for every state of the two datasets.
NextMig ==
    \/ \E m \in Modes, s \in SUBSET SnapNames, d \in SUBSET SnapNames,
          e \in BOOLEAN, t \in SnapNames \cup {None}, c \in BOOLEAN,
          y \in BOOLEAN :
            MigStart(m, s, d, e, t, c, y)
    \/ MigProbe
    \/ \E rc \in ExitCodes : MigResume(rc)
    \/ \E busy \in BOOLEAN : MigDiagnose(busy)
    \/ MigFallback
    \/ MigList
    \/ MigFull
    \/ \E rc \in ExitCodes : MigSend(rc)
    \/ MigReturn

SpecMig == Init /\ [][NextMig]_vars

NextBuild ==
    \E snapshot \in SnapNames, from_snapshot \in FromSnaps,
       recursive \in BOOLEAN, raw \in BOOLEAN, compressed \in BOOLEAN,
       resume_token \in ResumeTokens :
        BuildSend(snapshot, from_snapshot, recursive, raw, compressed,
                  resume_token)

SpecBuild == Init /\ [][NextBuild]_vars

SpecCancel == Init /\ [][NextCancel]_vars

SpecReconnect == Init /\ [][NextReconnect]_vars

SpecHolds == Init /\ [][NextHolds]_vars

SpecNegotiate == Init /\ [][NextNegotiate]_vars

SpecLines == Init /\ [][NextLines]_vars

\* The job manager with a Redis that always answers.
SpecJob == Init /\ [][NextJob]_vars

\* The job manager with a Redis connection that can fail.
SpecJobFaults == Init /\ [][NextJobFaults]_vars

\* pc values of a worker whose handle_migration_task is inside its try block
\* (the launcher is in running_tasks).
InTry == {"spawn", "stream", "prog_get", "prog_save"}

StoppedWorker == [IdleWorker EXCEPT !.pc = "stopped"]

\* stop, up to the end of the gather: _running = False, worker.cancel() for
\* every worker, and each worker unwinds on the CancelledError thrown at the
\* await it is suspended in: launcher.run does not catch it ('except
\* Exception'), nor does it signal the subprocess; the handler's finally
\* deletes the launcher from running_tasks; _worker breaks out of its loop.
StopWorkers ==
    /\ mgr = "running"
    /\ mgr' = "gathered"
    /\ wk' = [w \in Workers |-> StoppedWorker]
    /\ running_tasks' = running_tasks
                          \ {wk[w].tid : w \in {v \in Workers : wk[v].pc \in InTry}}
    /\ UNCHANGED <<redisUp, faults, queue, task, fresh, cr, proc, cn, jh>>
    /\ UNCHANGED <<mg, bld>>
    /\ UNCHANGED exceptMgr
    /\ UNCHANGED tokVars

\* stop, after the gather: process.terminate() on each value of
\* running_tasks; the values are MigrateLauncher objects, which have no
\* terminate method, so the AttributeError is swallowed by the bare except;
\* then running_tasks.clear() and stop returns.
StopReturn ==
    /\ mgr = "gathered"
    /\ mgr' = "stopped"
    /\ running_tasks' = {}
    /\ UNCHANGED <<redisUp, faults, queue, task, fresh, cr, proc, wk, cn, jh>>
    /\ UNCHANGED <<mg, bld>>
    /\ UNCHANGED exceptMgr
    /\ UNCHANGED tokVars

NextStop ==
    \/ NextJob
    \/ StopWorkers
    \/ StopReturn

SpecStop == Init /\ [][NextStop]_vars

NextTok ==
    \/ Tick
    \/ \E i \in FirstId, u \in Users, o \in Ops, t \in 1 .. MaxTtl :
            CreateToken(i, u, o, t)
    \/ \E i \in FirstId, u \in Users, o \in Ops, t \in 1 .. MaxTtl :
            ApiTokenCreate(i, u, o, t)
    \/ \E i \in Ids : RevokeGet(i)
    \/ RevokeSrem
    \/ RevokeDelete
    \/ \E i \in Ids : ApiTokenRevoke(i)
    \/ \E c \in Conns, i \in Ids : Connect(c, i)
    \/ \E c \in Conns : ValidateToken(c)
    \/ \E c \in Conns : ValidateDelete(c)
    \/ \E c \in Conns : MarkGet(c)
    \/ \E c \in Conns : MarkTtl(c)
    \/ \E c \in Conns : MarkSet(c)
    \/ \E c \in Conns : Reply(c)

SpecTok == Init /\ [][NextTok]_vars

\* The token store alone, called by one client through TokenManager and
\* AsyncTokenManager.
NextStore ==
    \/ Tick
    \/ \E i \in Ids, u \in Users, o \in Ops, t \in 1 .. MaxTtl :
            CreateToken(i, u, o, t)
    \/ \E i \in Ids, u \in Users, o \in Ops, t \in 1 .. MaxTtl :
            ApiTokenCreate(i, u, o, t)
    \/ \E i \in Ids : RevokeGet(i)
    \/ RevokeSrem
    \/ RevokeDelete
    \/ \E i \in Ids : RevokeZfsGet(i)
    \/ RevokeZfsMiss
    \/ RevokeZfsDelete
    \/ RevokeZfsSrem

NextStoreFaults ==
    \/ NextStore
    \/ RedisFail
    \/ RedisRecover

SpecStore == Init /\ [][NextStore]_vars

\* The token store with a Redis connection that can fail.
SpecStoreFaults == Init /\ [][NextStoreFaults]_vars

\* The lengths a client can declare and deliver in the handshake.
TokenLengths == {0, UuidLength, MaxTokenLength + 1}

\* The token socket with a Redis connection that can fail: handshakes of
\* every shape, one token.
NextSock ==
    \/ Tick
    \/ \E i \in FirstId, u \in Users, o \in Ops, t \in 1 .. MaxTtl :
            CreateToken(i, u, o, t)
    \/ \E c \in Conns, h \in 0 .. 4, d \in TokenLengths, g \in TokenLengths :
            Handshake(c, h, d, g)
    \/ \E c \in Conns, i \in Ids : Connect(c, i)
    \/ \E c \in Conns : ValidateToken(c)
    \/ \E c \in Conns : ValidateDelete(c)
    \/ \E c \in Conns : MarkGet(c)
    \/ \E c \in Conns : MarkTtl(c)
    \/ \E c \in Conns : MarkSet(c)
    \/ \E c \in Conns : Reply(c)
    \/ RedisFail
    \/ RedisRecover

SpecSock == Init /\ [][NextSock]_vars

\* Send streams: tokens are issued and presented, and the pipeline's output
\* is streamed to the client.
NextSend ==
    \/ \E i \in FirstId, u \in Users, o \in Ops, t \in 1 .. MaxTtl :
            CreateToken(i, u, o, t)
    \/ \E c \in Conns, i \in Ids : Connect(c, i)
    \/ \E c \in Conns : ValidateToken(c)
    \/ \E c \in Conns : MarkGet(c)
    \/ \E c \in Conns : MarkTtl(c)
    \/ \E c \in Conns : MarkSet(c)
    \/ \E c \in Conns : Reply(c)
    \/ \E c \in Conns : SendPopen(c)
    \/ \E c \in Conns, n \in 1 .. CHUNK_SIZE : SendChunk(c, n)
    \/ \E c \in Conns : SendEof(c)
    \/ \E c \in Conns, r \in ExitCodes, e \in Stderrs : SendWait(c, r, e)
    \/ \E c \in Conns : SendAbort(c)

SpecSend == Init /\ [][NextSend]_vars

\* validate_token returns a record to connection c in this step.
ValidateReturnsRecord(c) ==
    conn[c].pc = "validate" /\ conn'[c].pc = "mark_get"

\* ------------------------------------------------------------------ claims

\* C1: for any token, at most one of the connections that present it receives
\* the reply {"status": "started"}.
C1_AtMostOneStarted ==
    \A c1, c2 \in Conns :
        (c1 # c2 /\ conn[c1].pc = "started" /\ conn[c2].pc = "started")
            => conn[c1].tok # conn[c2].tok

\* The terminal statuses of TaskStatus.
Terminal == {"completed", "failed", "cancelled"}

\* C2: the persisted status of a job only changes pending -> running -> one
\* of completed, failed, cancelled; it never moves back and never changes
\* once a terminal status has been written.
C2_StatusOnlyAdvances ==
    [][\A j \in Jobs :
          (task[j] # NoRec /\ task'[j] # NoRec
             /\ task'[j].status # task[j].status)
            => \/ task[j].status = "pending" /\ task'[j].status = "running"
               \/ task[j].status = "running" /\ task'[j].status \in Terminal
      ]_vars

\* C3: when cancel_task signalled the running subprocess of a job (which
\* exited with -15) and returned true, then, once the worker is done with
\* the job and no cancel call is in progress, the persisted status is
\* cancelled and the result has the cancelled flag.
C3_CancelledJobEndsCancelled ==
    \A j \in Jobs :
        ( /\ jh[j].killed
          /\ proc[j].rc = -15
          /\ jh[j].processed
          /\ \E c \in Callers : cn[c].tid = j /\ cn[c].ret = "true"
          /\ \A c \in Callers : cn[c].pc \in {"idle", "done"} )
            => (task[j] # NoRec /\ task[j].status = "cancelled"
                                /\ task[j].result = "cancelled")

\* C4: once the handler of a job has returned or raised and _process_task is
\* done with it, the persisted record shows a terminal status, also when a
\* persistence write failed.
C4_TerminalStatusPersisted ==
    \A j \in Jobs :
        jh[j].processed => (task[j] # NoRec /\ task[j].status \in Terminal)

\* C5: a cancel_task call made after another call on the same job returned
\* true also returns true, and changes no state.
C5_SecondCancelIdempotent ==
    \A c \in Callers :
        (cn[c].pc = "done" /\ cn[c].second)
            => (cn[c].ret = "true" /\ ~cn[c].acted)

\* A step of a revoke call on an id for which an earlier revoke call has
\* returned.
RepeatedRevokeStep ==
    rv.pc # "idle" /\ rv' # rv /\ hist[rv.id].revokeReturned

C12_ValidateNeverMutates ==
    [][\A c \in Conns :
          (conn[c].pc \in {"validate", "vdelete"} /\ conn'[c].pc # conn[c].pc)
            => (zfsKey' = zfsKey /\ ownerIdx' = ownerIdx
                                 /\ ownerExp' = ownerExp)]_vars

\* C13: every stored, unexpired token that is not being revoked is a member
\* of its owner's index set.
C13_OwnerIndexHoldsLiveTokens ==
    \A i \in Ids :
        ( /\ zfsKey[i] # NoRec
          /\ now <= zfsKey[i].val.expires_at
          /\ ~(rv.pc # "idle" /\ rv.id = i) )
            => i \in ownerIdx[zfsKey[i].val.user_id]

\* C14: no owner ever holds more than one token above the configured
\* maximum, since issue fails for an owner who holds more than the maximum.
C14_QuotaExceededRefused ==
    \A u \in Users :
        Cardinality({i \in Ids : zfsKey[i] # NoRec
                                   /\ zfsKey[i].val.user_id = u})
            <= MaxOwnerTokens + 1

\* C15: a validate_token call made while Redis cannot be reached yields no
\* record: the connection is rejected, and a rejected connection never
\* receives the started reply.
C15_ValidateFailsClosed ==
    [][\A c \in Conns :
          /\ (conn[c].pc = "validate" /\ ~redisUp
                /\ conn'[c].pc # "validate") => conn'[c].pc = "rejected"
          /\ conn[c].pc = "rejected" => Wrote(c)' = <<"error">>]_vars

\* C15 witness: a connection that presented a stored, unexpired token was
\* rejected by a lookup made while Redis could not be reached.
C15_Witness ==
    \E c \in Conns :
        /\ conn[c].pc = "rejected" /\ conn[c].looked /\ ~conn[c].empty
        /\ ~redisUp
        /\ zfsKey[conn[c].tok] # NoRec
        /\ now <= zfsKey[conn[c].tok].val.expires_at
        /\ \A d \in Conns : d # c => conn[d].pc = "idle"

\* C16: every token id returned by an issue call had its record persisted.
C16_IssuedTokenWasStored ==
    \A i \in Ids : i <= nextId => hist[i].stored

\* C17: after a protocol violation in the handshake the server writes
\* nothing more to the client.
C17_ViolationClosesSilently ==
    \A c \in Conns : conn[c].viol => Wrote(c) = << >>

\* C18: a connection that presented the empty token is rejected without a
\* token store lookup.
C18_EmptyTokenNoLookup ==
    \A c \in Conns : conn[c].empty => ~conn[c].looked

\* A frame whose header announces exactly the bytes that follow it.
WellFormed(f) == f.len = f.bytes

\* C19: a send stream that ran to the end of the pipeline's output consists
\* of non-zero-length data frames, one zero-length terminator, and one
\* error-string frame after it if and only if the pipeline exited non-zero;
\* nothing else follows.
C19_SendStreamShape ==
    \A c \in Conns :
        conn[c].pc = "done" =>
            LET out == conn[c].out
                k == CHOOSE j \in 1 .. Len(out) + 1 :
                        /\ j <= Len(out) => out[j].len = 0
                        /\ \A h \in 1 .. j - 1 : out[h].len # 0
            IN  /\ k <= Len(out)
                /\ \A h \in 1 .. k : WellFormed(out[h])
                /\ Len(out) = IF conn[c].rc # 0 THEN k + 1 ELSE k
                /\ conn[c].rc # 0 => out[k + 1].len # 0 /\ WellFormed(out[k + 1])

OtherFields == {"status", "result", "error", "started_at", "completed_at"}

\* C30: a progress update replaces only the progress field of the job
\* record: status, result, error, started_at and completed_at are the same
\* before and after it, whatever it interleaves with.
C30_ProgressOnlyProgress ==
    [][\A w \in Workers :
          (wk[w].pc = "prog_save" /\ wk'[w].pc = "stream")
          => \A f \in OtherFields :
                task'[wk[w].tid][f] = task[wk[w].tid][f]]_vars

\* The worker is inside the handler of the task it holds.
InHandler(w) ==
    wk[w].pc \in {"spawn", "stream", "prog_get", "prog_save"}

\* C28: exactly one worker owns a running job: no job id has its handler
\* invoked by two workers, even when both obtained the id from the queue.
C28_OneWorkerOwnsJob ==
    \A j \in Jobs :
        Cardinality({w \in Workers : wk[w].tid = j /\ InHandler(w)}) <= 1

\* C29: every job created with create_task eventually has a terminal
\* status, completed or failed, in its record.
C29_EveryJobTerminates ==
    \A j \in Jobs :
        (cr[j] = "queued")
            ~> (task[j] # NoRec /\ task[j].status \in {"completed", "failed"})

\* The newest snapshot that source and destination both have, by name.
NewestCommon(src, dst) ==
    IF src \cap dst = {} THEN None ELSE Last(SnapList(src \cap dst))

\* C21: a completed replication job has the source's terminal snapshot on
\* the destination, and a replication whose receive failed is not completed.
C21_CompletedHasTerminalSnapshot ==
    (mg.pc = "done" /\ mg.job = "completed" /\ mg.src # {})
    => /\ Last(SnapList(mg.src)) \in mg.dst
       /\ ~mg.lastFailed

\* C22: with an existing destination that shares no snapshot with the
\* source, and no full send permitted, the job ends failed.
C22_NoCommonSnapshotFails ==
    (/\ mg.pc = "done"
     /\ mg.exists0 /\ mg.token0 = None /\ ~mg.create
     /\ mg.src0 # {} /\ mg.dst0 # {}
     /\ mg.src0 \cap mg.dst0 = {})
    => mg.job = "failed"

\* C23: when the destination dataset exposes a resume token, the plan is a
\* resume send with that token and no snapshot is enumerated before it.
C23_ResumeTokenMeansResume ==
    (mg.pc = "done" /\ mg.exists0 /\ mg.token0 # None /\ mg.src0 # {})
    => /\ \E i \in DOMAIN mg.cmds : mg.cmds[i] = "send_resume"
       /\ \A i \in DOMAIN mg.cmds :
             mg.cmds[i] \in {"list_dst", "list_src"}
             => \E k \in 1 .. i - 1 : mg.cmds[k] = "send_resume"

\* C24: a replication is reported up to date (success, no send spawned) if
\* and only if the newest common snapshot is the source's newest snapshot.
C24_UpToDateIffNewestCommon ==
    (mg.pc = "done" /\ mg.src # {} /\ mg.token0 = None)
    => ((mg.job = "completed" /\ mg.sends = 0)
        <=> NewestCommon(mg.src, mg.dst0) = Last(SnapList(mg.src)))

\* C25: after a failed resume attempt exactly one re-negotiated incremental
\* send is made, and when it fails the replication is reported failed.
C25_OneFallbackAfterResume ==
    (mg.pc = "done" /\ mg.resumeFailed /\ mg.token0 \in mg.src0)
    => /\ mg.sends - mg.sendsAtResume = 1
       /\ mg.lastFailed => mg.job = "failed"

\* C26: the engine never issues the receive-abort command on the
\* destination.
C26_NeverAbortsPartialReceive ==
    mg.token0 \in mg.src0 =>
    \A i \in DOMAIN mg.cmds : mg.cmds[i] # "receive_abort"

\* C6: "started" is sent only after validate returned a record and mark_used
\* succeeded for the presented token; otherwise the connection is rejected.
C6_StartedOnlyAfterMarkUsed ==
    \A c \in Conns :
        conn[c].pc = "started"
            => (conn[c].data # NoRec /\ conn[c].marked = "true")

\* C7: for any token, at most one mark_used call returns true.
C7_AtMostOneMarkUsedTrue ==
    \A c1, c2 \in Conns :
        (c1 # c2 /\ conn[c1].marked = "true" /\ conn[c2].marked = "true")
            => conn[c1].tok # conn[c2].tok

\* C8: a validate call made after the token's expires_at returns no record.
C8_NoValidationAfterExpiry ==
    \A c \in Conns : conn[c].data # NoRec => ~conn[c].late

\* C8 witness: a validate call found the key still stored after expires_at
\* (mark_used re-set it with a fresh TTL) and returned nil.
C8_Witness ==
    \E c \in Conns :
        /\ conn[c].pc = "vdelete"
        /\ zfsKey[conn[c].tok] # NoRec
        /\ now > zfsKey[conn[c].tok].val.expires_at

\* C9: once revoke(id) has removed a token, no later validate(id) returns a
\* record, also when a mark_used on id was in progress during the revoke.
C9_RevocationTerminal ==
    [][\A c \in Conns :
          ValidateReturnsRecord(c) => ~hist[conn[c].tok].removed]_vars

\* C10: issue, then revoke (by the store or by the control API's
\* token_revoke), then validate yields nil.
C10_IssueRevokeValidateNil ==
    [][\A c \in Conns :
          ValidateReturnsRecord(c) => ~hist[conn[c].tok].revokeReturned]_vars

\* C27: a call of the send command builder that supplies both a resume token
\* and explicit snapshot arguments is rejected at construction time: it
\* raises, and no command is produced.
C27_BuilderRejectsTokenWithSnapshot ==
    (bld.called /\ Truthy(bld.resume_token) /\ bld.snapshot \in SnapNames)
    => (bld.out.raised /\ bld.out.cmd = << >>)

\* C40: create_task persists the pending record before it pushes the id, so
\* every id in the queue, and every id a worker has popped and is about to
\* load, has a persisted record.
C40_QueuedIdHasRecord ==
    /\ \A i \in DOMAIN queue : task[queue[i]] # NoRec
    /\ \A w \in Workers : wk[w].pc = "load" => task[wk[w].tid] # NoRec

\* C31: the status of a job becomes cancelled only after the process group of
\* its pipeline has exited: while the stored status is cancelled the
\* subprocess of the job is not running.
C31_CancelledOnlyAfterExit ==
    \A j \in Jobs :
        (task[j] # NoRec /\ task[j].status = "cancelled")
            => proc[j].st # "running"

\* C32: when cancel has returned for a pipeline it signalled, no process of
\* the pipeline, leader or child, is still running.
C32_CancelReturnsAfterAllExited ==
    (pg.cancel = "returned" /\ pg.term)
        => (pg.leader # "running" /\ \A k \in Kids : pg.kid[k] # "running")

\* C33: after stop has returned every worker has stopped and no pipeline of
\* a job is still alive.
C33_StopLeavesNothingRunning ==
    mgr = "stopped"
        => /\ \A w \in Workers : wk[w].pc = "stopped"
           /\ \A j \in Jobs : proc[j].st # "running"

\* The use_count stored for token id (0 when the key is missing).
UseCount(key, id) == IF key[id] = NoRec THEN 0 ELSE key[id].val.use_count

\* C39: use_count never decreases and used never reverts to false while the
\* key is stored, and each mark_token_used that returns True raises the
\* stored use_count by exactly one, also when calls on one token overlap.
C39_UseCountCountsMarks ==
    [][/\ \A i \in Ids :
            (zfsKey[i] # NoRec /\ zfsKey'[i] # NoRec)
                => /\ zfsKey'[i].val.use_count >= zfsKey[i].val.use_count
                   /\ zfsKey[i].val.used => zfsKey'[i].val.used
       /\ \A c \in Conns :
            (conn[c].pc = "mark_set" /\ conn'[c].marked = "true")
                => UseCount(zfsKey', conn[c].tok)
                     = UseCount(zfsKey, conn[c].tok) + 1]_vars

\* C38: a reconnection makes at most max_retries attempts; the waits between
\* its attempts are 1, 2, 4, 8, 10, 10, ... seconds, one after each failed
\* attempt but the last; it gives up, reporting failure, exactly when
\* max_retries attempts have failed.
C38_BoundedBackoff ==
    /\ rcn.attempt <= rcn.max_retries
    /\ \A i \in DOMAIN rcn.waits :
          rcn.waits[i] = IF i <= 4 THEN 2 ^ (i - 1) ELSE 10
    /\ rcn.pc = "attempt" => Len(rcn.waits) = rcn.attempt - 1
    /\ rcn.pc = "sleep" => Len(rcn.waits) = rcn.attempt - 1
    /\ (rcn.pc = "done" /\ rcn.ret # "true")
          => /\ rcn.attempt = rcn.max_retries
             /\ Len(rcn.waits) = IF rcn.max_retries = 0 THEN 0
                                 ELSE rcn.max_retries - 1

\* Seven attempts failed: the six waits reached the cap twice.
C38_Witness ==
    /\ rcn.pc = "done"
    /\ rcn.ret = "false"
    /\ rcn.waits = <<1, 2, 4, 8, 10, 10>>

\* C34: with the sync policy on, a sync hold is on a snapshot of the source
\* or of the destination only after a transfer that succeeded: no hold has
\* been placed by a run whose receive failed.
C34_SyncHoldOnlyAfterSuccess ==
    (mg.sync /\ (mg.srcHolds # {} \/ mg.dstHolds # {})) => ~mg.recvFailed

\* C35: after the cleanup of a sync point for a peer, the source holds no
\* sync tag of that peer on a snapshot other than the one just transferred,
\* the hold just placed is still there, and the tags of other peers are as
\* they were.
C35_CleanupKeepsOnlyLatestOfPeer ==
    hd.called =>
        /\ \A n \in DOMAIN hd.after :
              n # hd.snap1 => \A t \in hd.after[n] : t.peer # hd.host
        /\ SyncTag(NewStamp, hd.host) \in hd.after[hd.snap1]
        /\ \A n \in DOMAIN hd.after :
              {t \in hd.after[n] : t.peer # hd.host}
                = {t \in hd.before[n] : t.peer # hd.host}

C37_DuplicateNotEmitted ==
    (ln.parsed # NoRec /\ ln.parsed = ln.previous) => ~ln.emitted

====
